---- MODULE Spec2Model ----
(***************************************************************************)
(* A model of the lox-rust tree-walking interpreter: the environment       *)
(* chain (environment.rs), functions and bound methods (callable.rs),      *)
(* classes and instances (lox_class.rs, lox_instance.rs) and the           *)
(* evaluator (interpreter.rs), driven by main.rs::run.                     *)
(*                                                                         *)
(* Rc<RefCell<Environment>> cells are entries of the sequence `envs`,      *)
(* addressed by their index; an Environment held by value (a clone) is a   *)
(* record that is not in `envs`.  Instance field tables                    *)
(* (Rc<RefCell<HashMap>>) are entries of `insts`.                          *)
(***************************************************************************)
EXTENDS Integers, Sequences, FiniteSets, TLC

VARIABLES source, phase, pc, locals, environment, envs, insts, output, errors

vars == <<source, phase, pc, locals, environment, envs, insts, output, errors>>

(***************************************************************************)
(* Bounds of the model.                                                    *)
(***************************************************************************)
\* number of loop iterations and calls one top-level statement may start
\* before the model gives up on it (the code has no such limit)
MaxFuel == 8
\* largest integer literal of the generated operand programs
MaxInt == 2

(***************************************************************************)
(* Values: object.rs Object over token Literal.                            *)
(***************************************************************************)
None == [t |-> "None"]
Bool(b) == [t |-> "Bool", b |-> b]
Isize(n) == [t |-> "Isize", n |-> n]
LString(s) == [t |-> "String", s |-> s]

\* f64, kept exact as a fraction num/den in lowest terms with den > 0;
\* den = 0 stands for the non-finite values: num = 1 inf, -1 -inf, 0 NaN
RECURSIVE Gcd(_, _)
Gcd(a, b) == IF b = 0 THEN a ELSE Gcd(b, a % b)
Abs(a) == IF a < 0 THEN -a ELSE a
Sign(a) == IF a < 0 THEN -1 ELSE IF a = 0 THEN 0 ELSE 1
Float(num, den) ==
    IF den = 0 THEN [t |-> "Float", num |-> Sign(num), den |-> 0]
    ELSE LET g == Gcd(Abs(num), Abs(den))
             s == Sign(den)
         IN  [t |-> "Float", num |-> (s * num) \div g, den |-> (s * den) \div g]
\* `l as f64`
AsF64(n) == Float(n, 1)

IsLiteral(o) == o.t \in {"None", "Bool", "Isize", "Float", "String"}

\* HashMap::insert
Insert(map, key, value) ==
    [x \in DOMAIN map \cup {key} |-> IF x = key THEN value ELSE map[x]]
EmptyMap == [x \in {} |-> None]

(***************************************************************************)
(* environment.rs                                                          *)
(***************************************************************************)
\* Environment::new that drops the enclosing reference it is given
Environment_new_detached(enclosing) == [enclosing |-> 0, values |-> [x \in {} |-> 0]]

\* Environment::new; enclosing = 0 is Option::None
Environment_new(enclosing) == [enclosing |-> enclosing, values |-> EmptyMap]

\* Rc::new(RefCell::new(environment)): a new cell at the end of the heap
NewCell(heap, content) == Append(heap, content)

\* Environment::define that keeps the binding a name already has in the frame
define_once(heap, self, name, value) ==
    IF name \in DOMAIN heap[self].values THEN heap
    ELSE [heap EXCEPT ![self].values = Insert(@, name, value)]

\* Environment::define on the cell `self`
define(heap, self, name, value) ==
    [heap EXCEPT ![self].values = Insert(@, name, value)]

\* Environment::get that goes to the enclosing frames first: the outermost
\* definition wins
RECURSIVE get_outermost(_, _, _)
get_outermost(heap, self, name) ==
    LET outer == IF heap[self].enclosing # 0
                 THEN get_outermost(heap, heap[self].enclosing, name)
                 ELSE [k |-> "err", v |-> None,
                       msg |-> "Undefined variableble '" \o name \o "'."]
    IN  IF outer.k = "ok" THEN outer
        ELSE IF name \in DOMAIN heap[self].values
             THEN [k |-> "ok", v |-> heap[self].values[name], msg |-> ""]
             ELSE outer

\* Environment::get: the nearest frame of the chain that defines the name
RECURSIVE get(_, _, _)
get(heap, self, name) ==
    IF name \in DOMAIN heap[self].values
    THEN [k |-> "ok", v |-> heap[self].values[name], msg |-> ""]
    ELSE IF heap[self].enclosing # 0
         THEN get(heap, heap[self].enclosing, name)
         ELSE [k |-> "err", v |-> None,
               msg |-> "Undefined variableble '" \o name \o "'."]

\* Environment::ancestor: starts from a clone of the frame and replaces it
\* `distance` times by a clone of its enclosing frame; the result is an
\* owned Environment (a record, not a cell of the heap).  The panic of
\* unwrap_or_else is reported as panic = TRUE.
RECURSIVE ancestorFrom(_, _, _)
ancestorFrom(heap, env, distance) ==
    IF distance = 0 THEN [panic |-> FALSE, env |-> env]
    ELSE IF env.enclosing = 0
         THEN [panic |-> TRUE, env |-> env]
         ELSE ancestorFrom(heap, heap[env.enclosing], distance - 1)
ancestor(heap, self, distance) == ancestorFrom(heap, heap[self], distance)

\* Environment::get_at
get_at(heap, self, distance, name) ==
    LET a == ancestor(heap, self, distance)
    IN  IF a.panic THEN [k |-> "panic", v |-> None, msg |-> "No enclosing format at distance"]
        ELSE IF name \in DOMAIN a.env.values
             THEN [k |-> "ok", v |-> a.env.values[name], msg |-> ""]
             ELSE [k |-> "panic", v |-> None, msg |-> "unreachable"]

\* Environment::assign_at: the insert goes into the map of the Environment
\* that ancestor returned, a temporary that is dropped when the statement
\* ends; no cell of the heap is written.
assign_at(heap, self, distance, name, value) ==
    LET a == ancestor(heap, self, distance)
        written == [a.env EXCEPT !.values = Insert(@, name, value)]
    IN  IF a.panic THEN [k |-> "panic", heap |-> heap]
        ELSE [k |-> "ok", heap |-> heap]

\* Environment::assign that inserts the name in the local frame when that
\* frame does not have it
assign_local(heap, self, name, value) ==
    [k |-> "ok", heap |-> [heap EXCEPT ![self].values = Insert(@, name, value)],
     msg |-> ""]

\* Environment::assign: writes the nearest frame that already has the name
RECURSIVE assign(_, _, _, _)
assign(heap, self, name, value) ==
    IF name \in DOMAIN heap[self].values
    THEN [k |-> "ok", heap |-> [heap EXCEPT ![self].values = Insert(@, name, value)],
          msg |-> ""]
    ELSE IF heap[self].enclosing # 0
         THEN assign(heap, heap[self].enclosing, name, value)
         ELSE [k |-> "err", heap |-> heap,
               msg |-> "Undefined variable '" \o name \o "'"]

(***************************************************************************)
(* Tokens, expressions (expr.rs) and statements as the parser builds them. *)
(***************************************************************************)
Token(token_type, lexeme, line) ==
    [token_type |-> token_type, lexeme |-> lexeme, line |-> line]
Ident(lexeme, line) == Token("IDENTIFIER", lexeme, line)
Op(token_type, line) == Token(token_type, token_type, line)

Literal(value) == [k |-> "Literal", value |-> value]
Grouping(expression) == [k |-> "Grouping", expression |-> expression]
Unary(operator, right) == [k |-> "Unary", operator |-> operator, right |-> right]
Binary(left, operator, right) ==
    [k |-> "Binary", left |-> left, operator |-> operator, right |-> right]
Logical(left, operator, right) ==
    [k |-> "Logical", left |-> left, operator |-> operator, right |-> right]
Variable(name) == [k |-> "Variable", name |-> name]
Assign(name, value) == [k |-> "Assign", name |-> name, value |-> value]
Call(callee, paren, arguments) ==
    [k |-> "Call", callee |-> callee, paren |-> paren, arguments |-> arguments]
Get(object, name) == [k |-> "Get", object |-> object, name |-> name]
Set(object, name, value) ==
    [k |-> "Set", object |-> object, name |-> name, value |-> value]
This(keyword) == [k |-> "This", keyword |-> keyword]
Super(keyword, method) == [k |-> "Super", keyword |-> keyword, method |-> method]

ExpressionStmt(expression) == [k |-> "Expression", expression |-> expression]
PrintStmt(expression) == [k |-> "Print", expression |-> expression]
VarStmt(name, initializer) == [k |-> "Var", name |-> name, initializer |-> initializer]
BlockStmt(statements) == [k |-> "Block", statements |-> statements]
\* else_branch is an Option: <<>> or <<stmt>>
IfStmt(condition, then_branch, else_branch) ==
    [k |-> "If", condition |-> condition, then_branch |-> then_branch,
     else_branch |-> else_branch]
WhileStmt(condition, body) == [k |-> "While", condition |-> condition, body |-> body]
FunctionStmt(name, params, body) ==
    [k |-> "Function", name |-> name, params |-> params, body |-> body]
ReturnStmt(keyword, value) == [k |-> "Return", keyword |-> keyword, value |-> value]
\* super_class is an Option: <<>> or <<Variable(..)>>
ClassStmt(name, super_class, methods) ==
    [k |-> "Class", name |-> name, super_class |-> super_class, methods |-> methods]

(***************************************************************************)
(* The interpreter's mutable state as it is threaded through a visit:      *)
(* the heap of frames, the heap of field tables, the current frame, what   *)
(* was printed, and the fuel left.  Global frame: cell 1.                  *)
(***************************************************************************)
globals == 1

\* Result<Object>: Ok(v), Err(RuntimeError(token, msg)), Err(Return(v));
\* "panic" is a Rust panic (the process aborts), "hang" is a visit that
\* did not end within MaxFuel iterations.
Ok(st, v) == [k |-> "ok", v |-> v, tok |-> "", msg |-> "", st |-> st]
RuntimeError(st, token, msg) ==
    [k |-> "err", v |-> None, tok |-> token.lexeme, msg |-> msg, st |-> st]
Return(st, v) == [k |-> "ret", v |-> v, tok |-> "", msg |-> "", st |-> st]
Panic(st, msg) == [k |-> "panic", v |-> None, tok |-> "", msg |-> msg, st |-> st]
Hang(st) == [k |-> "hang", v |-> None, tok |-> "", msg |-> "", st |-> st]

\* `let x = e;`: the rest of the function body F with x bound to the value
\* of e
Bind(x, F(_)) == F(x)

\* `let x = e?;`: a result that is not Ok leaves the function with it
Try(r, F(_)) == IF r.k = "ok" THEN F(r) ELSE r

(***************************************************************************)
(* callable.rs, lox_class.rs, lox_instance.rs                              *)
(***************************************************************************)
\* LoxFunction::new
LoxFunction_new(name, params, body, env, is_initializer) ==
    [t |-> "Func", name |-> name, params |-> params, body |-> body,
     closure |-> env, is_initializer |-> is_initializer]

Clock == [t |-> "Clock"]

\* LoxClass::new as visit_class_stmt calls it; the struct of lox_class.rs
\* has the fields name and methods only
LoxClass_new(name, super_class, methods) ==
    [t |-> "Class", name |-> name, methods |-> methods]

\* LoxClass::find_method: Option as <<>> or <<method>>
find_method(class, name) ==
    IF name \in DOMAIN class.methods THEN <<class.methods[name]>> ELSE <<>>

\* LoxFunction::arity, Clock::arity, LoxClass::arity
LoxFunction_arity(func) == Len(func.params)
Clock_arity == 0
LoxClass_arity(class) ==
    LET initializer == find_method(class, "init")
    IN  IF initializer # <<>> THEN LoxFunction_arity(initializer[1]) ELSE 0

\* LoxInstance::new: a new, empty field table
LoxInstance_new(st, class) ==
    [st |-> [st EXCEPT !.insts = NewCell(@, EmptyMap)],
     instance |-> [t |-> "Instance", class |-> class, fields |-> Len(st.insts) + 1]]

\* bind with `this` defined in the closure itself, no new frame
bind_in_closure(st, self, instance) ==
    [st |-> [st EXCEPT !.envs = define(@, self.closure, "this", instance)],
     func |-> self]

\* LoxFunction::bind: a new frame that defines `this`, on the closure
bind(st, self, instance) ==
    LET environement == [Environment_new(self.closure) EXCEPT
                            !.values = Insert(@, "this", instance)]
    IN  [st |-> [st EXCEPT !.envs = NewCell(@, environement)],
         func |-> LoxFunction_new(self.name, self.params, self.body,
                                  Len(st.envs) + 1, self.is_initializer)]

\* LoxInstance::get with the class's method looked up before the field table
LoxInstance_get_method_first(st, self, name) ==
    Bind(find_method(self.class, name.lexeme), LAMBDA method :
         IF method # <<>>
         THEN Bind(bind(st, method[1], self), LAMBDA b : Ok(b.st, b.func))
         ELSE IF name.lexeme \in DOMAIN st.insts[self.fields]
              THEN Ok(st, st.insts[self.fields][name.lexeme])
              ELSE RuntimeError(st, name, "Undefined property '" \o name.lexeme \o "'"))

\* LoxInstance::get
LoxInstance_get(st, self, name) ==
    IF name.lexeme \in DOMAIN st.insts[self.fields]
    THEN Ok(st, st.insts[self.fields][name.lexeme])
    ELSE Bind(find_method(self.class, name.lexeme), LAMBDA method :
         IF method # <<>>
         THEN Bind(bind(st, method[1], self), LAMBDA b : Ok(b.st, b.func))
         ELSE RuntimeError(st, name, "Undefined property '" \o name.lexeme \o "'"))

\* LoxInstance::set
LoxInstance_set(st, self, name, value) ==
    [st EXCEPT !.insts[self.fields] = Insert(@, name.lexeme, value)]

RECURSIVE evaluate(_, _), execute(_, _)

\* the loop of execute_block over statements[i..]
RECURSIVE execute_statements(_, _, _)
execute_statements(statements, i, st) ==
    IF i > Len(statements) THEN Ok(st, None)
    ELSE Try(execute(statements[i], st), LAMBDA r :
             execute_statements(statements, i + 1, r.st))

\* execute_block that restores `previous` only after the last statement,
\* not on the early return of an Err
execute_block_restore_on_ok_only(statements, env, st) ==
    Bind(execute_statements(statements, 1,
                            [st EXCEPT !.envs = NewCell(@, env),
                                       !.environment = Len(st.envs) + 1]),
         LAMBDA r : IF r.k = "ok" THEN [r EXCEPT !.st.environment = st.environment]
                    ELSE r)

\* Interpreter::execute_block: the Environment passed by value becomes a
\* new cell and the current frame; `previous` is restored on both returns
execute_block(statements, env, st) ==
    Bind(execute_statements(statements, 1,
                            [st EXCEPT !.envs = NewCell(@, env),
                                       !.environment = Len(st.envs) + 1]),
         LAMBDA r : IF r.k \in {"panic", "hang"} THEN r
                    ELSE [r EXCEPT !.st.environment = st.environment])

\* the zip loop of LoxFunction::call over params and arguments
RECURSIVE define_params(_, _, _, _)
define_params(env, params, arguments, i) ==
    IF i > Len(params) \/ i > Len(arguments) THEN env
    ELSE define_params([env EXCEPT !.values = Insert(@, params[i].lexeme, arguments[i])],
                       params, arguments, i + 1)

\* LoxFunction::call with the call frame put on the frame current at the
\* call instead of the closure
LoxFunction_call_dynamic(self, st, arguments) ==
    IF st.fuel = 0 THEN Hang(st)
    ELSE
    Bind(execute_block(self.body,
                       define_params(Environment_new(st.environment),
                                     self.params, arguments, 1),
                       [st EXCEPT !.fuel = @ - 1]),
         LAMBDA r :
         CASE r.k = "ok" ->
                IF self.is_initializer
                THEN Bind(get_at(r.st.envs, self.closure, 0, "this"), LAMBDA this :
                          IF this.k = "ok" THEN Ok(r.st, this.v)
                          ELSE Panic(r.st, this.msg))
                ELSE Ok(r.st, None)
           [] r.k = "ret" -> Ok(r.st, r.v)
           [] OTHER -> r)

\* LoxFunction::call without the arm for Err(Error::Return(..)): the Return
\* goes on to the caller like every other Err
LoxFunction_call_return_passes(self, st, arguments) ==
    IF st.fuel = 0 THEN Hang(st)
    ELSE
    Bind(execute_block(self.body,
                       define_params(Environment_new(self.closure),
                                     self.params, arguments, 1),
                       [st EXCEPT !.fuel = @ - 1]),
         LAMBDA r :
         CASE r.k = "ok" ->
                IF self.is_initializer
                THEN Bind(get_at(r.st.envs, self.closure, 0, "this"), LAMBDA this :
                          IF this.k = "ok" THEN Ok(r.st, this.v)
                          ELSE Panic(r.st, this.msg))
                ELSE Ok(r.st, None)
           [] OTHER -> r)

\* LoxFunction::call
LoxFunction_call(self, st, arguments) ==
    IF st.fuel = 0 THEN Hang(st)
    ELSE
    Bind(execute_block(self.body,
                       define_params(Environment_new(self.closure),
                                     self.params, arguments, 1),
                       [st EXCEPT !.fuel = @ - 1]),
         LAMBDA r :
         CASE r.k = "ok" ->
                IF self.is_initializer
                THEN Bind(get_at(r.st.envs, self.closure, 0, "this"), LAMBDA this :
                          IF this.k = "ok" THEN Ok(r.st, this.v)
                          ELSE Panic(r.st, this.msg))
                ELSE Ok(r.st, None)
           [] r.k = "ret" -> Ok(r.st, r.v)
           [] OTHER -> r)

\* Clock::call; the time read is not modelled, the result is an Isize
Clock_call(st, arguments) == Ok(st, Isize(0))

\* LoxClass::call that returns the new instance without calling `init`
LoxClass_call_without_init(self, st, arguments) ==
    Bind(LoxInstance_new(st, self), LAMBDA n : Ok(n.st, n.instance))

\* LoxClass::call
LoxClass_call(self, st, arguments) ==
    Bind(LoxInstance_new(st, self), LAMBDA n :
    Bind(find_method(self, "init"), LAMBDA initializer :
         IF initializer # <<>>
         THEN Bind(bind(n.st, initializer[1], n.instance), LAMBDA b :
              Try(LoxFunction_call(b.func, b.st, arguments), LAMBDA r :
                  Ok(r.st, n.instance)))
         ELSE Ok(n.st, n.instance)))

(***************************************************************************)
(* Arithmetic of the two number variants.                                  *)
(***************************************************************************)
\* isize `/` truncates toward zero (r # 0)
TruncDiv(l, r) == Sign(l) * Sign(r) * (Abs(l) \div Abs(r))

IsNaN(f) == f.den = 0 /\ f.num = 0
IsInf(f) == f.den = 0 /\ f.num # 0

FAdd(l, r) ==
    CASE IsNaN(l) \/ IsNaN(r) -> Float(0, 0)
      [] IsInf(l) /\ IsInf(r) -> IF l.num = r.num THEN l ELSE Float(0, 0)
      [] IsInf(l) -> l
      [] IsInf(r) -> r
      [] OTHER -> Float(l.num * r.den + r.num * l.den, l.den * r.den)
FNeg(r) == [r EXCEPT !.num = -@]
FSub(l, r) == FAdd(l, FNeg(r))
FMul(l, r) ==
    CASE IsNaN(l) \/ IsNaN(r) -> Float(0, 0)
      [] IsInf(l) \/ IsInf(r) -> Float(Sign(l.num) * Sign(r.num), 0)
      [] OTHER -> Float(l.num * r.num, l.den * r.den)
FDiv(l, r) ==
    CASE IsNaN(l) \/ IsNaN(r) -> Float(0, 0)
      [] IsInf(l) /\ IsInf(r) -> Float(0, 0)
      [] IsInf(l) -> Float(l.num * (IF r.num < 0 THEN -1 ELSE 1), 0)
      [] IsInf(r) -> Float(0, 1)
      [] r.num = 0 -> Float(Sign(l.num), 0)
      [] OTHER -> Float(l.num * r.den, l.den * r.num)
\* f64 `<`: false when either side is NaN
FLess(l, r) ==
    CASE IsNaN(l) \/ IsNaN(r) -> FALSE
      [] IsInf(l) /\ IsInf(r) -> l.num < r.num
      [] IsInf(l) -> l.num < 0
      [] IsInf(r) -> r.num > 0
      [] OTHER -> l.num * r.den < r.num * l.den
\* f64 `==`: false when either side is NaN
FEq(l, r) == ~IsNaN(l) /\ ~IsNaN(r) /\ l.num = r.num /\ l.den = r.den

(***************************************************************************)
(* interpreter.rs: helpers                                                 *)
(***************************************************************************)
\* Interpreter::is_truthy
is_truthy(object) ==
    IF IsLiteral(object)
    THEN CASE object.t = "None" -> FALSE
           [] object.t = "Bool" -> object.b
           [] OTHER -> TRUE
    ELSE FALSE

\* is_equal with an Integer and a Float compared as numbers
is_equal_numeric(a, b) ==
    IF IsLiteral(a) /\ IsLiteral(b)
    THEN CASE a.t = "None" /\ b.t = "None" -> TRUE
           [] a.t = "Bool" /\ b.t = "Bool" -> a.b = b.b
           [] a.t = "String" /\ b.t = "String" -> a.s = b.s
           [] a.t = "Isize" /\ b.t = "Isize" -> a.n = b.n
           [] a.t = "Float" /\ b.t = "Float" -> FEq(a, b)
           [] a.t = "Isize" /\ b.t = "Float" -> FEq(AsF64(a.n), b)
           [] a.t = "Float" /\ b.t = "Isize" -> FEq(a, AsF64(b.n))
           [] OTHER -> FALSE
    ELSE FALSE

\* is_equal that also holds of a Callable or an Instance and itself
is_equal_identity(a, b) ==
    IF IsLiteral(a) /\ IsLiteral(b)
    THEN CASE a.t = "None" /\ b.t = "None" -> TRUE
           [] a.t = "Bool" /\ b.t = "Bool" -> a.b = b.b
           [] a.t = "String" /\ b.t = "String" -> a.s = b.s
           [] a.t = "Isize" /\ b.t = "Isize" -> a.n = b.n
           [] a.t = "Float" /\ b.t = "Float" -> FEq(a, b)
           [] OTHER -> FALSE
    ELSE a = b

\* Interpreter::is_equal
is_equal(a, b) ==
    IF IsLiteral(a) /\ IsLiteral(b)
    THEN CASE a.t = "None" /\ b.t = "None" -> TRUE
           [] a.t = "Bool" /\ b.t = "Bool" -> a.b = b.b
           [] a.t = "String" /\ b.t = "String" -> a.s = b.s
           [] a.t = "Isize" /\ b.t = "Isize" -> a.n = b.n
           [] a.t = "Float" /\ b.t = "Float" -> FEq(a, b)
           [] OTHER -> FALSE
    ELSE FALSE

\* the key of Interpreter.locals: the Expr itself, hashed and compared by
\* value (derive(PartialEq, Eq, Hash)), i.e. by its tokens (type, lexeme,
\* line) and its sub-expressions
RECURSIVE ExprKey(_)
TokenKey(token) == token.lexeme \o "@" \o ToString(token.line)
RECURSIVE ExprsKey(_, _)
ExprsKey(exprs, i) ==
    IF i > Len(exprs) THEN "" ELSE ExprKey(exprs[i]) \o "," \o ExprsKey(exprs, i + 1)
LiteralKey(value) ==
    CASE value.t = "None" -> "nil"
      [] value.t = "Bool" -> IF value.b THEN "true" ELSE "false"
      [] value.t = "Isize" -> ToString(value.n)
      [] value.t = "Float" -> ToString(value.num) \o "/" \o ToString(value.den)
      [] value.t = "String" -> "'" \o value.s \o "'"
ExprKey(expr) ==
    CASE expr.k = "Literal" -> "Literal(" \o LiteralKey(expr.value) \o ")"
      [] expr.k = "Grouping" -> "Grouping(" \o ExprKey(expr.expression) \o ")"
      [] expr.k = "Unary" ->
           "Unary(" \o TokenKey(expr.operator) \o " " \o ExprKey(expr.right) \o ")"
      [] expr.k \in {"Binary", "Logical"} ->
           expr.k \o "(" \o ExprKey(expr.left) \o " " \o TokenKey(expr.operator)
                  \o " " \o ExprKey(expr.right) \o ")"
      [] expr.k = "Variable" -> "Variable(" \o TokenKey(expr.name) \o ")"
      [] expr.k = "Assign" ->
           "Assign(" \o TokenKey(expr.name) \o " " \o ExprKey(expr.value) \o ")"
      [] expr.k = "Call" ->
           "Call(" \o ExprKey(expr.callee) \o " " \o TokenKey(expr.paren) \o " "
                   \o ExprsKey(expr.arguments, 1) \o ")"
      [] expr.k = "Get" ->
           "Get(" \o ExprKey(expr.object) \o " " \o TokenKey(expr.name) \o ")"
      [] expr.k = "Set" ->
           "Set(" \o ExprKey(expr.object) \o " " \o TokenKey(expr.name) \o " "
                  \o ExprKey(expr.value) \o ")"
      [] expr.k = "This" -> "This(" \o TokenKey(expr.keyword) \o ")"
      [] expr.k = "Super" ->
           "Super(" \o TokenKey(expr.keyword) \o " " \o TokenKey(expr.method) \o ")"

\* Interpreter::look_up_variable
look_up_variable(st, name, expr) ==
    Bind(ExprKey(expr), LAMBDA key :
    Bind(IF key \in DOMAIN locals
         THEN get_at(st.envs, st.environment, locals[key], name.lexeme)
         ELSE get(st.envs, globals, name.lexeme),
         LAMBDA r : CASE r.k = "ok" -> Ok(st, r.v)
                      [] r.k = "err" -> RuntimeError(st, name, r.msg)
                      [] OTHER -> Panic(st, r.msg)))

(***************************************************************************)
(* interpreter.rs: expr::Visitor                                           *)
(***************************************************************************)
\* Interpreter::visit_literal
visit_literal(value, st) == Ok(st, value)

IsNumber(o) == o.t \in {"Isize", "Float"}
ToF64(o) == IF o.t = "Isize" THEN AsF64(o.n) ELSE o

\* the (Isize, Isize) arm of an operator of visit_binary; `/` by zero is
\* the panic "attempt to divide by zero"
IsizeArm(st, token_type, l, r) ==
    CASE token_type = "GREATER" -> Ok(st, Bool(l > r))
      [] token_type = "GREATEREQUAL" -> Ok(st, Bool(l >= r))
      [] token_type = "LESS" -> Ok(st, Bool(l < r))
      [] token_type = "LESSEQUAL" -> Ok(st, Bool(l <= r))
      [] token_type = "MINUS" -> Ok(st, Isize(l - r))
      [] token_type = "PLUS" -> Ok(st, Isize(l + r))
      [] token_type = "SLASH" -> IF r = 0 THEN Panic(st, "attempt to divide by zero")
                                 ELSE Ok(st, Isize(TruncDiv(l, r)))
      [] token_type = "STAR" -> Ok(st, Isize(l * r))

\* the three arms of an operator of visit_binary with a Float operand,
\* after the `as f64` casts
FloatArm(st, token_type, l, r) ==
    CASE token_type = "GREATER" -> Ok(st, Bool(FLess(r, l)))
      [] token_type = "GREATEREQUAL" -> Ok(st, Bool(FLess(r, l) \/ FEq(l, r)))
      [] token_type = "LESS" -> Ok(st, Bool(FLess(l, r)))
      [] token_type = "LESSEQUAL" -> Ok(st, Bool(FLess(l, r) \/ FEq(l, r)))
      [] token_type = "MINUS" -> Ok(st, FSub(l, r))
      [] token_type = "PLUS" -> Ok(st, FAdd(l, r))
      [] token_type = "SLASH" -> Ok(st, FDiv(l, r))
      [] token_type = "STAR" -> Ok(st, FMul(l, r))

ArithmeticOps ==
    {"GREATER", "GREATEREQUAL", "LESS", "LESSEQUAL", "MINUS", "PLUS", "SLASH", "STAR"}

\* the match of visit_binary on the operator and the two evaluated operands
binary_match(st, operator, left, right) ==
    CASE operator.token_type \in ArithmeticOps ->
           IF IsLiteral(left) /\ IsLiteral(right)
           THEN CASE left.t = "Isize" /\ right.t = "Isize" ->
                       IsizeArm(st, operator.token_type, left.n, right.n)
                  [] IsNumber(left) /\ IsNumber(right) ->
                       FloatArm(st, operator.token_type, ToF64(left), ToF64(right))
                  [] operator.token_type = "PLUS" /\ left.t = "String"
                       /\ right.t = "String" ->
                       Ok(st, LString(left.s \o right.s))
                  [] OTHER -> RuntimeError(st, operator, "Operands must be numbers.")
           ELSE Panic(st, "unreachable")
      [] operator.token_type = "BANGEQUAL" -> Ok(st, Bool(~is_equal(left, right)))
      [] operator.token_type = "EQUALEQUAL" -> Ok(st, Bool(is_equal(left, right)))
      [] OTHER -> Ok(st, None)

\* Interpreter::visit_binary
visit_binary(left, operator, right, st) ==
    Try(evaluate(left, st), LAMBDA l :
    Try(evaluate(right, l.st), LAMBDA r :
        binary_match(r.st, operator, l.v, r.v)))

\* Interpreter::visit_grouping
visit_grouping(expression, st) == evaluate(expression, st)

\* Interpreter::visit_unary
visit_unary(operator, right, st) ==
    Try(evaluate(right, st), LAMBDA r :
        CASE operator.token_type = "MINUS" /\ IsLiteral(r.v) ->
               (CASE r.v.t = "Isize" -> Ok(r.st, Isize(-r.v.n))
                  [] r.v.t = "Float" -> Ok(r.st, FNeg(r.v))
                  [] OTHER -> RuntimeError(r.st, operator, "Operand must be a number."))
          [] operator.token_type = "BANG" /\ IsLiteral(r.v) ->
               Ok(r.st, Bool(~is_truthy(r.v)))
          [] OTHER -> Ok(r.st, None))

\* Interpreter::visit_variable
visit_variable(name, st) == look_up_variable(st, name, Variable(name))

\* visit_assign where a name that no frame defines is created in the global
\* frame instead of being an error
visit_assign_implicit_global(name, value, st) ==
    Try(evaluate(value, st), LAMBDA evaluated_value :
    Bind(ExprKey(Assign(name, value)), LAMBDA key :
    Bind(evaluated_value.st, LAMBDA s :
         IF key \in DOMAIN locals
         THEN Bind(assign_at(s.envs, s.environment, locals[key],
                             name.lexeme, evaluated_value.v),
                   LAMBDA a : IF a.k = "ok"
                              THEN Ok([s EXCEPT !.envs = a.heap], evaluated_value.v)
                              ELSE Panic(s, "No enclosing format at distance"))
         ELSE Ok([s EXCEPT !.envs = define(@, globals, name.lexeme, evaluated_value.v)],
                 evaluated_value.v))))

\* Interpreter::visit_assign
visit_assign(name, value, st) ==
    Try(evaluate(value, st), LAMBDA evaluated_value :
    Bind(ExprKey(Assign(name, value)), LAMBDA key :
    Bind(evaluated_value.st, LAMBDA s :
         IF key \in DOMAIN locals
         THEN Bind(assign_at(s.envs, s.environment, locals[key],
                             name.lexeme, evaluated_value.v),
                   LAMBDA a : IF a.k = "ok"
                              THEN Ok([s EXCEPT !.envs = a.heap], evaluated_value.v)
                              ELSE Panic(s, "No enclosing format at distance"))
         ELSE Bind(assign(s.envs, globals, name.lexeme, evaluated_value.v),
                   LAMBDA a : IF a.k = "ok"
                              THEN Ok([s EXCEPT !.envs = a.heap], evaluated_value.v)
                              ELSE RuntimeError(s, name, a.msg)))))

\* Interpreter::visit_logical
visit_logical(left, operator, right, st) ==
    Try(evaluate(left, st), LAMBDA evaluated_left :
    Bind(is_truthy(evaluated_left.v), LAMBDA is_left_truthy :
         IF operator.token_type = "OR"
         THEN IF is_left_truthy THEN evaluated_left
              ELSE evaluate(right, evaluated_left.st)
         ELSE IF ~is_left_truthy THEN evaluated_left
              ELSE evaluate(right, evaluated_left.st)))

\* the loop of visit_call over the arguments: v is the Vec evaluated_args
RECURSIVE evaluate_arguments(_, _, _, _)
evaluate_arguments(arguments, i, evaluated_args, st) ==
    IF i > Len(arguments) THEN Ok(st, evaluated_args)
    ELSE Try(evaluate(arguments[i], st), LAMBDA r :
             evaluate_arguments(arguments, i + 1, Append(evaluated_args, r.v), r.st))

ArityError(st, paren, arity, got) ==
    RuntimeError(st, paren, "Expected " \o ToString(arity) \o " arguments but got "
                            \o ToString(got) \o ".")

\* the match of visit_call without the arity check of the Class arm
call_match_class_unchecked(st, callee, paren, evaluated_args) ==
    CASE callee.t = "Func" ->
           IF Len(evaluated_args) # LoxFunction_arity(callee)
           THEN ArityError(st, paren, LoxFunction_arity(callee), Len(evaluated_args))
           ELSE LoxFunction_call(callee, st, evaluated_args)
      [] callee.t = "Clock" ->
           IF Len(evaluated_args) # Clock_arity
           THEN ArityError(st, paren, Clock_arity, Len(evaluated_args))
           ELSE Clock_call(st, evaluated_args)
      [] callee.t = "Class" -> LoxClass_call(callee, st, evaluated_args)
      [] OTHER -> RuntimeError(st, paren, "Can only call functions and classes.")

\* the match of visit_call on the callee, after the arguments
call_match(st, callee, paren, evaluated_args) ==
    CASE callee.t = "Func" ->
           IF Len(evaluated_args) # LoxFunction_arity(callee)
           THEN ArityError(st, paren, LoxFunction_arity(callee), Len(evaluated_args))
           ELSE LoxFunction_call(callee, st, evaluated_args)
      [] callee.t = "Clock" ->
           IF Len(evaluated_args) # Clock_arity
           THEN ArityError(st, paren, Clock_arity, Len(evaluated_args))
           ELSE Clock_call(st, evaluated_args)
      [] callee.t = "Class" ->
           IF Len(evaluated_args) # LoxClass_arity(callee)
           THEN ArityError(st, paren, LoxClass_arity(callee), Len(evaluated_args))
           ELSE LoxClass_call(callee, st, evaluated_args)
      [] OTHER -> RuntimeError(st, paren, "Can only call functions and classes.")

\* visit_call that checks the callee and the number of argument expressions
\* before it evaluates the arguments
visit_call_check_first(callee, paren, arguments, st) ==
    Try(evaluate(callee, st), LAMBDA c :
        CASE c.v.t \notin {"Func", "Clock", "Class"} ->
               RuntimeError(c.st, paren, "Can only call functions and classes.")
          [] c.v.t = "Func" /\ Len(arguments) # LoxFunction_arity(c.v) ->
               ArityError(c.st, paren, LoxFunction_arity(c.v), Len(arguments))
          [] OTHER ->
               Try(evaluate_arguments(arguments, 1, <<>>, c.st), LAMBDA args :
                   call_match(args.st, c.v, paren, args.v)))

\* Interpreter::visit_call
visit_call(callee, paren, arguments, st) ==
    Try(evaluate(callee, st), LAMBDA c :
    Try(evaluate_arguments(arguments, 1, <<>>, c.st), LAMBDA args :
        call_match(args.st, c.v, paren, args.v)))

\* Interpreter::visit_get
visit_get(object, name, st) ==
    Try(evaluate(object, st), LAMBDA evaluated_object :
        IF evaluated_object.v.t = "Instance"
        THEN LoxInstance_get(evaluated_object.st, evaluated_object.v, name)
        ELSE RuntimeError(evaluated_object.st, name, "Only instances have properties."))

\* visit_set that evaluates the value expression before the target object
visit_set_value_first(object, name, value, st) ==
    Try(evaluate(value, st), LAMBDA evaluated_value :
        Try(evaluate(object, evaluated_value.st), LAMBDA evaluated_object :
            IF evaluated_object.v.t = "Instance"
            THEN Ok(LoxInstance_set(evaluated_object.st, evaluated_object.v,
                                    name, evaluated_value.v),
                    evaluated_value.v)
            ELSE RuntimeError(evaluated_object.st, name, "Only instances have fields.")))

\* Interpreter::visit_set
visit_set(object, name, value, st) ==
    Try(evaluate(object, st), LAMBDA evaluated_object :
        IF evaluated_object.v.t = "Instance"
        THEN Try(evaluate(value, evaluated_object.st), LAMBDA evaluated_value :
                 Ok(LoxInstance_set(evaluated_value.st, evaluated_object.v,
                                    name, evaluated_value.v),
                    evaluated_value.v))
        ELSE RuntimeError(evaluated_object.st, name, "Only instances have fields."))

\* visit_super that returns the method found without binding the receiver
visit_super_unbound(keyword, method, st) ==
    Bind(ExprKey(Super(keyword, method)), LAMBDA key :
    IF key \notin DOMAIN locals THEN Panic(st, "super found on locals")
    ELSE
    Bind(locals[key], LAMBDA distance :
    Bind(get_at(st.envs, st.environment, distance, "super"), LAMBDA object_super :
    IF object_super.k # "ok" THEN Panic(st, object_super.msg)
    ELSE IF object_super.v.t = "Class"
    THEN IF distance = 0 THEN Panic(st, "attempt to subtract with overflow")
         ELSE
         Bind(get_at(st.envs, st.environment, distance - 1, "this"), LAMBDA this :
         IF this.k # "ok" THEN Panic(st, this.msg)
         ELSE IF this.v.t = "Instance"
         THEN Bind(find_method(object_super.v, method.lexeme), LAMBDA m :
                   IF m # <<>>
                   THEN Ok(st, m[1])
                   ELSE RuntimeError(st, method,
                          "Undefined propertiesperty '" \o method.lexeme \o "' '."))
         ELSE RuntimeError(st, method, "'this' should be instance"))
    ELSE RuntimeError(st, method, "'super' should be class"))))

\* Interpreter::visit_super
visit_super(keyword, method, st) ==
    Bind(ExprKey(Super(keyword, method)), LAMBDA key :
    IF key \notin DOMAIN locals THEN Panic(st, "super found on locals")
    ELSE
    Bind(locals[key], LAMBDA distance :
    Bind(get_at(st.envs, st.environment, distance, "super"), LAMBDA object_super :
    IF object_super.k # "ok" THEN Panic(st, object_super.msg)
    ELSE IF object_super.v.t = "Class"
    THEN IF distance = 0 THEN Panic(st, "attempt to subtract with overflow")
         ELSE
         Bind(get_at(st.envs, st.environment, distance - 1, "this"), LAMBDA this :
         IF this.k # "ok" THEN Panic(st, this.msg)
         ELSE IF this.v.t = "Instance"
         THEN Bind(find_method(object_super.v, method.lexeme), LAMBDA m :
                   IF m # <<>>
                   THEN Bind(bind(st, m[1], this.v), LAMBDA b : Ok(b.st, b.func))
                   ELSE RuntimeError(st, method,
                          "Undefined propertiesperty '" \o method.lexeme \o "' '."))
         ELSE RuntimeError(st, method, "'this' should be instance"))
    ELSE RuntimeError(st, method, "'super' should be class"))))

\* Interpreter::visit_this
visit_this(keyword, st) == look_up_variable(st, keyword, This(keyword))

\* Interpreter::evaluate with Expr::accept
evaluate(expr, st) ==
    CASE expr.k = "Binary" -> visit_binary(expr.left, expr.operator, expr.right, st)
      [] expr.k = "Grouping" -> visit_grouping(expr.expression, st)
      [] expr.k = "Literal" -> visit_literal(expr.value, st)
      [] expr.k = "Logical" -> visit_logical(expr.left, expr.operator, expr.right, st)
      [] expr.k = "Unary" -> visit_unary(expr.operator, expr.right, st)
      [] expr.k = "Variable" -> visit_variable(expr.name, st)
      [] expr.k = "Assign" -> visit_assign(expr.name, expr.value, st)
      [] expr.k = "Call" -> visit_call(expr.callee, expr.paren, expr.arguments, st)
      [] expr.k = "Get" -> visit_get(expr.object, expr.name, st)
      [] expr.k = "Set" -> visit_set(expr.object, expr.name, expr.value, st)
      [] expr.k = "This" -> visit_this(expr.keyword, st)
      [] expr.k = "Super" -> visit_super(expr.keyword, expr.method, st)

(***************************************************************************)
(* interpreter.rs: stmt::Visitor                                           *)
(***************************************************************************)
\* Display of a value, as println!("{}", value) writes it
Stringify(value) ==
    CASE value.t = "None" -> "nil"
      [] value.t = "Bool" -> IF value.b THEN "true" ELSE "false"
      [] value.t = "Isize" -> ToString(value.n)
      [] value.t = "Float" ->
           (CASE value.den = 1 -> ToString(value.num)
              [] value.den = 2 -> (IF value.num < 0 THEN "-" ELSE "")
                                  \o ToString(Abs(value.num) \div 2) \o ".5"
              [] value.den = 0 -> IF value.num = 0 THEN "NaN"
                                  ELSE IF value.num > 0 THEN "inf" ELSE "-inf")
      [] value.t = "String" -> value.s
      [] value.t = "Func" -> "<fn " \o value.name.lexeme \o ">"
      [] value.t = "Clock" -> "<native fn>"
      [] value.t = "Class" -> value.name
      [] value.t = "Instance" -> value.class.name \o " instance, fields has"

\* Interpreter::visit_expression_stmt
visit_expression_stmt(expression, st) ==
    Try(evaluate(expression, st), LAMBDA result : Ok(result.st, None))

\* Interpreter::visit_print_stmt
visit_print_stmt(expression, st) ==
    Try(evaluate(expression, st), LAMBDA value :
        Ok([value.st EXCEPT !.output = Append(@, Stringify(value.v))], None))

\* visit_var_stmt with the name defined (as nil) before the initializer is
\* evaluated
visit_var_stmt_define_first(name, initializer, st) ==
    Try(evaluate(initializer,
                 [st EXCEPT !.envs = define(@, st.environment, name.lexeme, None)]),
        LAMBDA value :
        Ok([value.st EXCEPT
               !.envs = define(@, value.st.environment, name.lexeme, value.v)],
           None))

\* Interpreter::visit_var_stmt
visit_var_stmt(name, initializer, st) ==
    Try(evaluate(initializer, st), LAMBDA value :
        Ok([value.st EXCEPT
               !.envs = define(@, value.st.environment, name.lexeme, value.v)],
           None))

\* Interpreter::visit_block_stmt
visit_block_stmt(statements, st) ==
    execute_block(statements, Environment_new(st.environment), st)

\* Interpreter::visit_if_stmt
visit_if_stmt(condition, then_branch, else_branch, st) ==
    Try(evaluate(condition, st), LAMBDA evaluated :
    Try(IF is_truthy(evaluated.v)
        THEN execute(then_branch, evaluated.st)
        ELSE Ok(evaluated.st, None),
        LAMBDA t : IF else_branch # <<>> THEN execute(else_branch[1], t.st)
                   ELSE Ok(t.st, None)))

\* Interpreter::visit_while_stmt
RECURSIVE visit_while_stmt(_, _, _)
visit_while_stmt(condition, body, st) ==
    Try(evaluate(condition, st), LAMBDA evaluated_condition :
        IF is_truthy(evaluated_condition.v)
        THEN IF evaluated_condition.st.fuel = 0 THEN Hang(evaluated_condition.st)
             ELSE Try(execute(body, [evaluated_condition.st EXCEPT !.fuel = @ - 1]),
                      LAMBDA b : visit_while_stmt(condition, body, b.st))
        ELSE Ok(evaluated_condition.st, None))

\* visit_function_stmt whose function captures a copy of the current frame,
\* taken before the name is defined
visit_function_stmt_capture_copy(name, params, body, st) ==
    Bind([st EXCEPT !.envs = NewCell(@, st.envs[st.environment])], LAMBDA s :
    Bind(LoxFunction_new(name, params, body, Len(s.envs), FALSE), LAMBDA function :
         Ok([s EXCEPT !.envs = define(@, s.environment, name.lexeme, function)], None)))

\* Interpreter::visit_function_stmt
visit_function_stmt(name, params, body, st) ==
    Bind(LoxFunction_new(name, params, body, st.environment, FALSE), LAMBDA function :
         Ok([st EXCEPT !.envs = define(@, st.environment, name.lexeme, function)], None))

\* Interpreter::visit_return_stmt
visit_return_stmt(keyword, v, st) ==
    IF v.k = "Literal" /\ v.value.t = "None" THEN Return(st, None)
    ELSE Try(evaluate(v, st), LAMBDA evaluated_value :
             Return(evaluated_value.st, evaluated_value.v))

\* the loop of visit_class_stmt over class_methods: the method table
RECURSIVE class_methods_table(_, _, _, _)
class_methods_table(class_methods, i, methods, env) ==
    IF i > Len(class_methods) THEN methods
    ELSE Bind(class_methods[i], LAMBDA m :
         Bind(LoxFunction_new(m.name, m.params, m.body, env, m.name.lexeme = "init"),
              LAMBDA function :
              class_methods_table(class_methods, i + 1,
                                  Insert(methods, m.name.lexeme, function), env)))

\* visit_class_stmt that takes whatever value the superclass expression has
visit_class_stmt_any_superclass(name, super_class, class_methods, st) ==
    Try(IF super_class # <<>> THEN evaluate(super_class[1], st) ELSE Ok(st, None),
        LAMBDA sc :
    Bind(sc.st.environment, LAMBDA declaring :
    Bind([sc.st EXCEPT !.envs = define(@, declaring, name.lexeme, None)], LAMBDA s1 :
    Bind(IF super_class # <<>>
         THEN [s1 EXCEPT
                 !.envs = NewCell(@, [Environment_new(declaring) EXCEPT
                                         !.values = Insert(@, "super", sc.v)]),
                 !.environment = Len(s1.envs) + 1]
         ELSE s1, LAMBDA s2 :
    Bind(class_methods_table(class_methods, 1, EmptyMap, s2.environment),
         LAMBDA methods :
    Bind(LoxClass_new(name.lexeme,
                      IF super_class # <<>> THEN <<sc.v>> ELSE <<>>, methods),
         LAMBDA klass :
    Bind(IF super_class # <<>>
         THEN [s2 EXCEPT !.environment = s2.envs[s2.environment].enclosing]
         ELSE s2, LAMBDA s3 :
    Bind(assign(s3.envs, s3.environment, name.lexeme, klass), LAMBDA a :
         IF a.k = "ok" THEN Ok([s3 EXCEPT !.envs = a.heap], None)
         ELSE RuntimeError(s3, name, a.msg)))))))))

\* visit_class_stmt without the definition of the name as nil before the
\* methods are built
visit_class_stmt_without_prebinding(name, super_class, class_methods, st) ==
    Try(IF super_class # <<>> THEN evaluate(super_class[1], st) ELSE Ok(st, None),
        LAMBDA sc :
    IF super_class # <<>> /\ sc.v.t # "Class"
    THEN IF super_class[1].k = "Variable"
         THEN RuntimeError(sc.st, super_class[1].name, "Superclass must be a class.")
         ELSE Panic(sc.st, "unreachable")
    ELSE
    Bind(sc.st.environment, LAMBDA declaring :
    Bind(IF super_class # <<>>
         THEN [sc.st EXCEPT
                 !.envs = NewCell(@, [Environment_new(declaring) EXCEPT
                                         !.values = Insert(@, "super", sc.v)]),
                 !.environment = Len(sc.st.envs) + 1]
         ELSE sc.st, LAMBDA s2 :
    Bind(class_methods_table(class_methods, 1, EmptyMap, s2.environment),
         LAMBDA methods :
    Bind(LoxClass_new(name.lexeme,
                      IF super_class # <<>> THEN <<sc.v>> ELSE <<>>, methods),
         LAMBDA klass :
    Bind(IF super_class # <<>>
         THEN [s2 EXCEPT !.environment = s2.envs[s2.environment].enclosing]
         ELSE s2, LAMBDA s3 :
    Bind(assign(s3.envs, s3.environment, name.lexeme, klass), LAMBDA a :
         IF a.k = "ok" THEN Ok([s3 EXCEPT !.envs = a.heap], None)
         ELSE RuntimeError(s3, name, a.msg))))))))

\* Interpreter::visit_class_stmt
visit_class_stmt(name, super_class, class_methods, st) ==
    Try(IF super_class # <<>> THEN evaluate(super_class[1], st) ELSE Ok(st, None),
        LAMBDA sc :
    IF super_class # <<>> /\ sc.v.t # "Class"
    THEN IF super_class[1].k = "Variable"
         THEN RuntimeError(sc.st, super_class[1].name, "Superclass must be a class.")
         ELSE Panic(sc.st, "unreachable")
    ELSE
    Bind(sc.st.environment, LAMBDA declaring :
    Bind([sc.st EXCEPT !.envs = define(@, declaring, name.lexeme, None)], LAMBDA s1 :
    Bind(IF super_class # <<>>
         THEN [s1 EXCEPT
                 !.envs = NewCell(@, [Environment_new(declaring) EXCEPT
                                         !.values = Insert(@, "super", sc.v)]),
                 !.environment = Len(s1.envs) + 1]
         ELSE s1, LAMBDA s2 :
    Bind(class_methods_table(class_methods, 1, EmptyMap, s2.environment),
         LAMBDA methods :
    Bind(LoxClass_new(name.lexeme,
                      IF super_class # <<>> THEN <<sc.v>> ELSE <<>>, methods),
         LAMBDA klass :
    Bind(IF super_class # <<>>
         THEN [s2 EXCEPT !.environment = s2.envs[s2.environment].enclosing]
         ELSE s2, LAMBDA s3 :
    Bind(assign(s3.envs, s3.environment, name.lexeme, klass), LAMBDA a :
         IF a.k = "ok" THEN Ok([s3 EXCEPT !.envs = a.heap], None)
         ELSE RuntimeError(s3, name, a.msg)))))))))

\* Interpreter::execute with Stmt::accept
execute(stmt, st) ==
    CASE stmt.k = "Expression" -> visit_expression_stmt(stmt.expression, st)
      [] stmt.k = "Print" -> visit_print_stmt(stmt.expression, st)
      [] stmt.k = "Var" -> visit_var_stmt(stmt.name, stmt.initializer, st)
      [] stmt.k = "Block" -> visit_block_stmt(stmt.statements, st)
      [] stmt.k = "If" ->
           visit_if_stmt(stmt.condition, stmt.then_branch, stmt.else_branch, st)
      [] stmt.k = "While" -> visit_while_stmt(stmt.condition, stmt.body, st)
      [] stmt.k = "Function" -> visit_function_stmt(stmt.name, stmt.params, stmt.body, st)
      [] stmt.k = "Return" -> visit_return_stmt(stmt.keyword, stmt.value, st)
      [] stmt.k = "Class" ->
           visit_class_stmt(stmt.name, stmt.super_class, stmt.methods, st)

(***************************************************************************)
(* The resolver: one pass over the AST that fills Interpreter.locals.      *)
(* Its state: the stack of scopes (name -> ready), the binding table, the  *)
(* reports, the current function kind and the current class kind.          *)
(***************************************************************************)
\* Interpreter::resolve
Interpreter_resolve(table, expr, depth) == Insert(table, ExprKey(expr), depth)

EmptyScope == [x \in {} |-> FALSE]
ResolverNew ==
    [scopes |-> <<>>, locals |-> [x \in {} |-> 0], errors |-> <<>>,
     current_function |-> "None", current_class |-> "None"]

begin_scope(R) == [R EXCEPT !.scopes = Append(@, EmptyScope)]
end_scope(R) == [R EXCEPT !.scopes = SubSeq(@, 1, Len(@) - 1)]
declare(R, name) ==
    IF R.scopes = <<>> THEN R
    ELSE [R EXCEPT !.scopes[Len(R.scopes)] = Insert(@, name.lexeme, FALSE)]
define_scope(R, name) ==
    IF R.scopes = <<>> THEN R
    ELSE [R EXCEPT !.scopes[Len(R.scopes)] = Insert(@, name.lexeme, TRUE)]
report(R, token, message) == [R EXCEPT !.errors = Append(@, message)]

\* scan the scope stack from the innermost scope outward
RECURSIVE resolve_local_from(_, _, _, _)
resolve_local_from(R, expr, name, i) ==
    IF i = 0 THEN R
    ELSE IF name.lexeme \in DOMAIN R.scopes[i]
         THEN [R EXCEPT !.locals = Interpreter_resolve(@, expr, Len(R.scopes) - i)]
         ELSE resolve_local_from(R, expr, name, i - 1)
resolve_local(R, expr, name) == resolve_local_from(R, expr, name, Len(R.scopes))

RECURSIVE resolve_expr(_, _), resolve_stmt(_, _)

RECURSIVE resolve_exprs(_, _, _)
resolve_exprs(R, exprs, i) ==
    IF i > Len(exprs) THEN R ELSE resolve_exprs(resolve_expr(R, exprs[i]), exprs, i + 1)

\* F(x) with x evaluated first (an operator argument is evaluated only when
\* it is used, which nests the resolution of a long statement list deeply)
Then(x, F(_)) == CHOOSE y \in {F(v) : v \in {x}} : TRUE

RECURSIVE resolve_statements(_, _, _)
resolve_statements(R, statements, i) ==
    IF i > Len(statements) THEN R
    ELSE Then(resolve_stmt(R, statements[i]),
              LAMBDA R1 : resolve_statements(R1, statements, i + 1))

RECURSIVE define_all(_, _, _)
define_all(R, params, i) ==
    IF i > Len(params) THEN R
    ELSE define_all(define_scope(declare(R, params[i]), params[i]), params, i + 1)

\* one scope for the parameters and the body
resolve_function(R, function, type) ==
    LET enclosing_function == R.current_function
        R1 == define_all(begin_scope([R EXCEPT !.current_function = type]),
                         function.params, 1)
        R2 == resolve_statements(R1, function.body, 1)
    IN  [end_scope(R2) EXCEPT !.current_function = enclosing_function]

RECURSIVE resolve_methods(_, _, _)
resolve_methods(R, methods, i) ==
    IF i > Len(methods) THEN R
    ELSE resolve_methods(
            resolve_function(R, methods[i],
                IF methods[i].name.lexeme = "init" THEN "Initializer" ELSE "Method"),
            methods, i + 1)

resolve_class(R, stmt) ==
    LET enclosing_class == R.current_class
        R1 == define_scope(declare([R EXCEPT !.current_class = "Class"], stmt.name),
                           stmt.name)
        has_super == stmt.super_class # <<>>
        R2 == IF has_super /\ stmt.super_class[1].name.lexeme = stmt.name.lexeme
              THEN report(R1, stmt.super_class[1].name, "A class can't inherit from itself.")
              ELSE R1
        R3 == IF has_super
              THEN LET r == begin_scope(resolve_expr(R2, stmt.super_class[1]))
                   IN  [r EXCEPT !.scopes[Len(r.scopes)] = Insert(@, "super", TRUE)]
              ELSE R2
        R4 == LET r == begin_scope(R3)
              IN  [r EXCEPT !.scopes[Len(r.scopes)] = Insert(@, "this", TRUE)]
        R5 == end_scope(resolve_methods(R4, stmt.methods, 1))
        R6 == IF has_super THEN end_scope(R5) ELSE R5
    IN  [R6 EXCEPT !.current_class = enclosing_class]

resolve_expr(R, expr) ==
    CASE expr.k = "Variable" ->
           LET R1 == IF /\ R.scopes # <<>>
                        /\ expr.name.lexeme \in DOMAIN R.scopes[Len(R.scopes)]
                        /\ ~R.scopes[Len(R.scopes)][expr.name.lexeme]
                     THEN report(R, expr.name,
                                 "Can't read local variable in its own initializer.")
                     ELSE R
           IN  resolve_local(R1, expr, expr.name)
      [] expr.k = "Assign" -> resolve_local(resolve_expr(R, expr.value), expr, expr.name)
      [] expr.k \in {"Binary", "Logical"} ->
           resolve_expr(resolve_expr(R, expr.left), expr.right)
      [] expr.k = "Call" ->
           resolve_exprs(resolve_expr(R, expr.callee), expr.arguments, 1)
      [] expr.k = "Get" -> resolve_expr(R, expr.object)
      [] expr.k = "Grouping" -> resolve_expr(R, expr.expression)
      [] expr.k = "Literal" -> R
      [] expr.k = "Set" -> resolve_expr(resolve_expr(R, expr.value), expr.object)
      [] expr.k = "Unary" -> resolve_expr(R, expr.right)
      [] expr.k = "This" ->
           IF R.current_class = "None" \/ R.current_function \notin {"Method", "Initializer"}
           THEN report(R, expr.keyword, "Can't use 'this' outside of a class.")
           ELSE resolve_local(R, expr, expr.keyword)
      [] expr.k = "Super" ->
           IF R.current_function \notin {"Method", "Initializer"}
           THEN report(R, expr.keyword, "Can't use 'super' outside of a class.")
           ELSE resolve_local(R, expr, expr.keyword)

resolve_stmt(R, stmt) ==
    CASE stmt.k = "Block" ->
           end_scope(resolve_statements(begin_scope(R), stmt.statements, 1))
      [] stmt.k = "Var" ->
           define_scope(resolve_expr(declare(R, stmt.name), stmt.initializer), stmt.name)
      [] stmt.k = "Function" ->
           resolve_function(define_scope(declare(R, stmt.name), stmt.name), stmt, "Function")
      [] stmt.k = "Class" -> resolve_class(R, stmt)
      [] stmt.k \in {"Expression", "Print"} -> resolve_expr(R, stmt.expression)
      [] stmt.k = "If" ->
           LET R1 == resolve_stmt(resolve_expr(R, stmt.condition), stmt.then_branch)
           IN  IF stmt.else_branch # <<>> THEN resolve_stmt(R1, stmt.else_branch[1]) ELSE R1
      [] stmt.k = "While" -> resolve_stmt(resolve_expr(R, stmt.condition), stmt.body)
      [] stmt.k = "Return" ->
           LET R1 == IF R.current_function = "None"
                     THEN report(R, stmt.keyword, "Can't return from top-level code.")
                     ELSE R
           IN  resolve_expr(R1, stmt.value)

(***************************************************************************)
(* The programs run: what the scanner and the parser hand to run() for     *)
(* the source texts quoted in the comments.                                *)
(***************************************************************************)
V(lexeme, line) == Variable(Ident(lexeme, line))
Num(n) == Literal(Isize(n))
Str(s) == Literal(LString(s))
Paren(line) == Token("RIGHTPAREN", ")", line)
Call0(callee, line) == Call(callee, Paren(line), <<>>)
Call1(callee, arg, line) == Call(callee, Paren(line), <<arg>>)
Ret(value, line) == ReturnStmt(Token("RETURN", "return", line), value)
ThisAt(line) == This(Token("THIS", "this", line))
SuperAt(method, line) == Super(Token("SUPER", "super", line), Ident(method, line))
Fun(name, line, params, body) == FunctionStmt(Ident(name, line), params, body)

\* fun makeCounter(){ var i=a; fun count(){ i=i+1; return i; } return count; }
\* var c=makeCounter(); print c(); print c();
CounterProgram(a) ==
    << Fun("makeCounter", 1, <<>>,
           << VarStmt(Ident("i", 1), Num(a)),
              Fun("count", 1, <<>>,
                  << ExpressionStmt(Assign(Ident("i", 1),
                                           Binary(V("i", 1), Op("PLUS", 1), Num(1)))),
                     Ret(V("i", 1), 1) >>),
              Ret(V("count", 1), 1) >>),
       VarStmt(Ident("c", 1), Call0(V("makeCounter", 1), 1)),
       PrintStmt(Call0(V("c", 1), 1)),
       PrintStmt(Call0(V("c", 1), 1)) >>

\* 1  var f;
\* 2  { var a = A; fun g() { return a; } f = g; }            (b = 0)
\* 2  { var a = A; fun g() { return a; } var a = A + 1; f = g; }   (b = 1)
\* 2  fun mk() { var a = A; fun g() { return a; } return g; } f = mk();  (b = 2)
\* 3  print f();                                             (c = 0)
\* 3  { var a = 9; print f(); }                              (c = 1)
\* 3  fun h() { var a = 9; print f(); } h();                 (c = 2)
CaptureProgram(a, b, c) ==
    LET g == Fun("g", 2, <<>>, << Ret(V("a", 2), 2) >>)
        fg == ExpressionStmt(Assign(Ident("f", 2), V("g", 2)))
        create ==
          CASE b = 0 -> << BlockStmt(<< VarStmt(Ident("a", 2), Num(a)), g, fg >>) >>
            [] b = 1 -> << BlockStmt(<< VarStmt(Ident("a", 2), Num(a)), g,
                                        VarStmt(Ident("a", 2), Num(a + 1)), fg >>) >>
            [] b = 2 -> << Fun("mk", 2, <<>>, << VarStmt(Ident("a", 2), Num(a)), g,
                                                 Ret(V("g", 2), 2) >>),
                           ExpressionStmt(Assign(Ident("f", 2),
                                                 Call0(V("mk", 2), 2))) >>
        pf == PrintStmt(Call0(V("f", 3), 3))
        use ==
          CASE c = 0 -> << pf >>
            [] c = 1 -> << BlockStmt(<< VarStmt(Ident("a", 3), Num(9)), pf >>) >>
            [] c = 2 -> << Fun("h", 3, <<>>, << VarStmt(Ident("a", 3), Num(9)), pf >>),
                           ExpressionStmt(Call0(V("h", 3), 3)) >>
    IN  << VarStmt(Ident("f", 1), Literal(None)) >> \o create \o use

\* 1  var s; var g;
\* 2  { var x = A;
\* 3    fun set(v) { x = v; }
\* 4    fun get() { return x; }
\* 5    s = set; g = get; }
\* 6  s(B);
\* 7  print g();
SharedProgram(a, b) ==
    << VarStmt(Ident("s", 1), Literal(None)),
       VarStmt(Ident("g", 1), Literal(None)),
       BlockStmt(<< VarStmt(Ident("x", 2), Num(a)),
                    Fun("set", 3, << Ident("v", 3) >>,
                        << ExpressionStmt(Assign(Ident("x", 3), V("v", 3))) >>),
                    Fun("get", 4, <<>>, << Ret(V("x", 4), 4) >>),
                    ExpressionStmt(Assign(Ident("s", 5), V("set", 5))),
                    ExpressionStmt(Assign(Ident("g", 5), V("get", 5))) >>),
       ExpressionStmt(Call1(V("s", 6), Num(b), 6)),
       PrintStmt(Call0(V("g", 7), 7)) >>

\* b = 0:  var a = A; { var a = a + 1; print a; }
\* b = 1:  { var a = a; }
\* b = 2:  var a = A; var a = a + 1; print a;
\* b = 3:  var a = A; { var b = a + 1; print b; }
ShadowProgram(a, b) ==
    LET incr == Binary(V("a", 1), Op("PLUS", 1), Num(1))
    IN  CASE b = 0 -> << VarStmt(Ident("a", 1), Num(a)),
                         BlockStmt(<< VarStmt(Ident("a", 1), incr),
                                      PrintStmt(V("a", 1)) >>) >>
          [] b = 1 -> << BlockStmt(<< VarStmt(Ident("a", 1), V("a", 1)) >>) >>
          [] b = 2 -> << VarStmt(Ident("a", 1), Num(a)),
                         VarStmt(Ident("a", 1), incr),
                         PrintStmt(V("a", 1)) >>
          [] b = 3 -> << VarStmt(Ident("a", 1), Num(a)),
                         BlockStmt(<< VarStmt(Ident("b", 1), incr),
                                      PrintStmt(V("b", 1)) >>) >>

\* the operand expressions of the operator programs, by code:
\* -MaxInt..MaxInt integer literals (a negative one is `-n`), then
\* nil true false 0.0 1.0 0.5 "a" "1" "" and the names f K o clock
IntOperands == (-MaxInt) .. MaxInt
OtherOperands == 101 .. 113
Operands == IntOperands \cup OtherOperands
LiteralOperands == IntOperands \cup (101 .. 109)
OperandExpr(code, line) ==
    CASE code \in IntOperands ->
           IF code < 0 THEN Unary(Op("MINUS", line), Num(-code)) ELSE Num(code)
      [] code = 101 -> Literal(None)
      [] code = 102 -> Literal(Bool(TRUE))
      [] code = 103 -> Literal(Bool(FALSE))
      [] code = 104 -> Literal(Float(0, 1))
      [] code = 105 -> Literal(Float(1, 1))
      [] code = 106 -> Literal(Float(1, 2))
      [] code = 107 -> Str("a")
      [] code = 108 -> Str("1")
      [] code = 109 -> Str("")
      [] code = 110 -> V("f", line)
      [] code = 111 -> V("K", line)
      [] code = 112 -> V("o", line)
      [] code = 113 -> V("clock", line)
\* the value a literal operand evaluates to
OperandValue(code) ==
    IF code \in IntOperands THEN Isize(code) ELSE OperandExpr(code, 1).value

OpTypes == << "PLUS", "MINUS", "STAR", "SLASH", "GREATER", "GREATEREQUAL",
              "LESS", "LESSEQUAL", "EQUALEQUAL", "BANGEQUAL" >>

\* 1  fun f() {}
\* 2  class K {}
\* 3  var o = K();
\* 4  var r = X op Y;
BinaryProgram(op, x, y) ==
    << Fun("f", 1, <<>>, <<>>),
       ClassStmt(Ident("K", 2), <<>>, <<>>),
       VarStmt(Ident("o", 3), Call0(V("K", 3), 3)),
       VarStmt(Ident("r", 4),
               Binary(OperandExpr(x, 4), Op(OpTypes[op], 4), OperandExpr(y, 4))) >>

\* 1  class A { m() { return this.tag + "A"; } }
\* 2  class B < A { m() { return "B"; } test() { return super.m(); } }
\* 3  class C < B { m() { return "C"; } test() { return super.test(); } }
\* 4  var o = B();        (a = 0)       var o = C();      (a = 1)
\* 5  o.tag = "x";
\* 6  print o.test();
\* 7  print o.m();
\* 8  class D < A { t() { return super.nope(); } }
\* 9  print D().t();
\* 10 print "end";
SuperProgram(a) ==
    << ClassStmt(Ident("A", 1), <<>>,
         << Fun("m", 1, <<>>,
                << Ret(Binary(Get(ThisAt(1), Ident("tag", 1)), Op("PLUS", 1), Str("A")),
                       1) >>) >>),
       ClassStmt(Ident("B", 2), << V("A", 2) >>,
         << Fun("m", 2, <<>>, << Ret(Str("B"), 2) >>),
            Fun("test", 2, <<>>, << Ret(Call0(SuperAt("m", 2), 2), 2) >>) >>),
       ClassStmt(Ident("C", 3), << V("B", 3) >>,
         << Fun("m", 3, <<>>, << Ret(Str("C"), 3) >>),
            Fun("test", 3, <<>>, << Ret(Call0(SuperAt("test", 3), 3), 3) >>) >>),
       VarStmt(Ident("o", 4), Call0(V(IF a = 0 THEN "B" ELSE "C", 4), 4)),
       ExpressionStmt(Set(V("o", 5), Ident("tag", 5), Str("x"))),
       PrintStmt(Call0(Get(V("o", 6), Ident("test", 6)), 6)),
       PrintStmt(Call0(Get(V("o", 7), Ident("m", 7)), 7)),
       ClassStmt(Ident("D", 8), << V("A", 8) >>,
         << Fun("t", 8, <<>>, << Ret(Call0(SuperAt("nope", 8), 8), 8) >>) >>),
       PrintStmt(Call0(Get(Call0(V("D", 9), 9), Ident("t", 9)), 9)),
       PrintStmt(Str("end")) >>

\* 1  class K { set(v) { this.x = v; } get() { return this.x; } }
\* 2  var o = K();
\* 3  var p = K();
\* 4  var m = o.set;
\* 5  var n = o.set;
\* 6  var q = p.set;
\* 7  m(A);
\* 8  print o.x;
\* 9  p.f = o.get;
\* 10 print p.f();
\* 11 fun apply(h, v) { h(v); }
\* 12 apply(o.set, B);
\* 13 print o.x;
BoundProgram(a, b) ==
    << ClassStmt(Ident("K", 1), <<>>,
         << Fun("set", 1, << Ident("v", 1) >>,
                << ExpressionStmt(Set(ThisAt(1), Ident("x", 1), V("v", 1))) >>),
            Fun("get", 1, <<>>, << Ret(Get(ThisAt(1), Ident("x", 1)), 1) >>) >>),
       VarStmt(Ident("o", 2), Call0(V("K", 2), 2)),
       VarStmt(Ident("p", 3), Call0(V("K", 3), 3)),
       VarStmt(Ident("m", 4), Get(V("o", 4), Ident("set", 4))),
       VarStmt(Ident("n", 5), Get(V("o", 5), Ident("set", 5))),
       VarStmt(Ident("q", 6), Get(V("p", 6), Ident("set", 6))),
       ExpressionStmt(Call1(V("m", 7), Num(a), 7)),
       PrintStmt(Get(V("o", 8), Ident("x", 8))),
       ExpressionStmt(Set(V("p", 9), Ident("f", 9), Get(V("o", 9), Ident("get", 9)))),
       PrintStmt(Call0(Get(V("p", 10), Ident("f", 10)), 10)),
       Fun("apply", 11, << Ident("h", 11), Ident("v", 11) >>,
           << ExpressionStmt(Call1(V("h", 11), V("v", 11), 11)) >>),
       ExpressionStmt(Call(V("apply", 12), Paren(12),
                           << Get(V("o", 12), Ident("set", 12)), Num(b) >>)),
       PrintStmt(Get(V("o", 13), Ident("x", 13))) >>

\* 1  fun f(x) { print "body"; }
\* 2  class K { init(x) { print "init"; this.x = x; } }
\* 3  class L {}
\* 4  <callee>(<b arguments>);    callee a: 0 f, 1 clock, 2 K, 3 L
\* 5  print "end";
Callees == << "f", "clock", "K", "L" >>
ArityProgram(a, b) ==
    << Fun("f", 1, << Ident("x", 1) >>, << PrintStmt(Str("body")) >>),
       ClassStmt(Ident("K", 2), <<>>,
         << Fun("init", 2, << Ident("x", 2) >>,
                << PrintStmt(Str("init")),
                   ExpressionStmt(Set(ThisAt(2), Ident("x", 2), V("x", 2))) >>) >>),
       ClassStmt(Ident("L", 3), <<>>, <<>>),
       ExpressionStmt(Call(V(Callees[a + 1], 4), Paren(4), [i \in 1 .. b |-> Num(i)])),
       PrintStmt(Str("end")) >>

\* 1  var a = A;
\* 2  var o = nil;
\* 3  class K {}
\* 4  fun g() { print "in g"; a = a + 1; o.x = 1; return nil + 1; }
\* 5  o = K();
\* 6  print g();
\* 7  print a;
\* 8  print o.x;
\* 9  var u = undefinedVar;
\* 10 print u;
\* 11 print "end";
ErrorProgram(a) ==
    << VarStmt(Ident("a", 1), Num(a)),
       VarStmt(Ident("o", 2), Literal(None)),
       ClassStmt(Ident("K", 3), <<>>, <<>>),
       Fun("g", 4, <<>>,
           << PrintStmt(Str("in g")),
              ExpressionStmt(Assign(Ident("a", 4),
                                    Binary(V("a", 4), Op("PLUS", 4), Num(1)))),
              ExpressionStmt(Set(V("o", 4), Ident("x", 4), Num(1))),
              Ret(Binary(Literal(None), Op("PLUS", 4), Num(1)), 4) >>),
       ExpressionStmt(Assign(Ident("o", 5), Call0(V("K", 5), 5))),
       PrintStmt(Call0(V("g", 6), 6)),
       PrintStmt(V("a", 7)),
       PrintStmt(Get(V("o", 8), Ident("x", 8))),
       VarStmt(Ident("u", 9), V("undefinedVar", 9)),
       PrintStmt(V("u", 10)),
       PrintStmt(Str("end")) >>

\* b = 0, on one line:
\* 1  { var i = 0; while (i < A) { i = i + 1; } }
\* 2  print "end";
\* b = 1, the same statements on three lines:
\* 1  { var i = 0;
\* 2    while (i < A)
\* 3    { i = i + 1; } }
\* 4  print "end";
LoopProgram(a, b) ==
    LET cond == IF b = 0 THEN 1 ELSE 2
        body == IF b = 0 THEN 1 ELSE 3
    IN  << BlockStmt(<< VarStmt(Ident("i", 1), Num(0)),
                        WhileStmt(Binary(V("i", cond), Op("LESS", cond), Num(a)),
                                  BlockStmt(<< ExpressionStmt(
                                      Assign(Ident("i", body),
                                             Binary(V("i", body), Op("PLUS", body),
                                                    Num(1)))) >>)) >>),
           PrintStmt(Str("end")) >>

\* 1  print "before";
\* 2  class K {}
\* 3  var o = K();
\* 4  o.x = 1;
\* 5  return 1;  (a = 0)   print this;  (a = 1)   { var x = x; }  (a = 2)
\*    class M < M {}  (a = 3)
\* 6  print "after";
RejectedProgram(a) ==
    << PrintStmt(Str("before")),
       ClassStmt(Ident("K", 2), <<>>, <<>>),
       VarStmt(Ident("o", 3), Call0(V("K", 3), 3)),
       ExpressionStmt(Set(V("o", 4), Ident("x", 4), Num(1))),
       CASE a = 0 -> Ret(Num(1), 5)
         [] a = 1 -> PrintStmt(ThisAt(5))
         [] a = 2 -> BlockStmt(<< VarStmt(Ident("x", 5), V("x", 5)) >>)
         [] a = 3 -> ClassStmt(Ident("M", 5), << V("M", 5) >>, <<>>),
       PrintStmt(Str("after")) >>

\* 1  class K { init() { this.x = A; } }           (b = 0)
\*    class K { init() { this.x = A; return; } }   (b = 1)
\* 2  fun plain() {}
\* 3  fun valued() { return A; }
\* 4  var o = K();
\* 5  var r = o.init();
\* 6  var p = plain();
\* 7  var q = valued();
InitProgram(a, b) ==
    << ClassStmt(Ident("K", 1), <<>>,
         << Fun("init", 1, <<>>,
                << ExpressionStmt(Set(ThisAt(1), Ident("x", 1), Num(a))) >>
                \o (IF b = 1 THEN << Ret(Literal(None), 1) >> ELSE <<>>)) >>),
       Fun("plain", 2, <<>>, <<>>),
       Fun("valued", 3, <<>>, << Ret(Num(a), 3) >>),
       VarStmt(Ident("o", 4), Call0(V("K", 4), 4)),
       VarStmt(Ident("r", 5), Call0(Get(V("o", 5), Ident("init", 5)), 5)),
       VarStmt(Ident("p", 6), Call0(V("plain", 6), 6)),
       VarStmt(Ident("q", 7), Call0(V("valued", 7), 7)) >>

\* 1  class A { m() { return "A.m"; } n() { return "A.n"; } }
\* 2  class B < A { n() { return "B.n"; } }
\* 3  var o = B();
\* 4  o.f = A;
\* 5  print o.f;
\* 6  print o.n();
\* 7  print o.m();
\* 8  print o.nope;
\* 9  var z = A;
\* 10 print z.f;
\* 11 print "end";
PropertyProgram(a) ==
    << ClassStmt(Ident("A", 1), <<>>,
         << Fun("m", 1, <<>>, << Ret(Str("A.m"), 1) >>),
            Fun("n", 1, <<>>, << Ret(Str("A.n"), 1) >>) >>),
       ClassStmt(Ident("B", 2), << V("A", 2) >>,
         << Fun("n", 2, <<>>, << Ret(Str("B.n"), 2) >>) >>),
       VarStmt(Ident("o", 3), Call0(V("B", 3), 3)),
       ExpressionStmt(Set(V("o", 4), Ident("f", 4), Num(a))),
       PrintStmt(Get(V("o", 5), Ident("f", 5))),
       PrintStmt(Call0(Get(V("o", 6), Ident("n", 6)), 6)),
       PrintStmt(Call0(Get(V("o", 7), Ident("m", 7)), 7)),
       PrintStmt(Get(V("o", 8), Ident("nope", 8))),
       VarStmt(Ident("z", 9), Num(a)),
       PrintStmt(Get(V("z", 10), Ident("f", 10))),
       PrintStmt(Str("end")) >>

\* 1  fun f() {}
\* 2  class K {}
\* 3  var o = K();
\* 4  if (X) print "t";
\* 5  var r = !X;
\* 6  print "end";
TruthProgram(x) ==
    << Fun("f", 1, <<>>, <<>>),
       ClassStmt(Ident("K", 2), <<>>, <<>>),
       VarStmt(Ident("o", 3), Call0(V("K", 3), 3)),
       IfStmt(OperandExpr(x, 4), PrintStmt(Str("t")), <<>>),
       VarStmt(Ident("r", 5), Unary(Op("BANG", 5), OperandExpr(x, 5))),
       PrintStmt(Str("end")) >>

\* the conditions of the if programs: 0 nil true false ""
Conditions == {0, 101, 102, 103, 109}
\* 1  if (X) print "then";                      (b = 0)
\*    if (X) print "then"; else print "else";   (b = 1)
\* 2  print "end";
IfProgram(x, b) ==
    << IfStmt(OperandExpr(x, 1), PrintStmt(Str("then")),
              IF b = 1 THEN << PrintStmt(Str("else")) >> ELSE <<>>),
       PrintStmt(Str("end")) >>

\* the operands of the logical programs: left 0 nil true false "" f o,
\* right 1 nil "a"
LeftOperands == {0, 101, 102, 103, 109, 110, 112}
RightOperands == {1, 101, 107}
LogicalTypes == << "OR", "AND" >>
\* 1  fun f() {}
\* 2  class K {}
\* 3  var o = K();
\* 4  fun t(v) { print "a"; return v; }
\* 5  fun u(v) { print "b"; return v; }
\* 6  var r = t(X) or u(Y);     (op = 1)     var r = t(X) and u(Y);   (op = 2)
LogicalProgram(op, x, y) ==
    << Fun("f", 1, <<>>, <<>>),
       ClassStmt(Ident("K", 2), <<>>, <<>>),
       VarStmt(Ident("o", 3), Call0(V("K", 3), 3)),
       Fun("t", 4, << Ident("v", 4) >>, << PrintStmt(Str("a")), Ret(V("v", 4), 4) >>),
       Fun("u", 5, << Ident("v", 5) >>, << PrintStmt(Str("b")), Ret(V("v", 5), 5) >>),
       VarStmt(Ident("r", 6),
               Logical(Call1(V("t", 6), OperandExpr(x, 6), 6),
                       Token(LogicalTypes[op], IF op = 1 THEN "or" ELSE "and", 6),
                       Call1(V("u", 6), OperandExpr(y, 6), 6))) >>

UnaryTypes == << "MINUS", "BANG" >>
\* 1  fun f() {}
\* 2  class K {}
\* 3  var o = K();
\* 4  var r = -X;   (op = 1)      var r = !X;   (op = 2)
UnaryProgram(op, x) ==
    << Fun("f", 1, <<>>, <<>>),
       ClassStmt(Ident("K", 2), <<>>, <<>>),
       VarStmt(Ident("o", 3), Call0(V("K", 3), 3)),
       VarStmt(Ident("r", 4), Unary(Op(UnaryTypes[op], 4), OperandExpr(x, 4))) >>

\* the assigned values of the assignment programs: 0 1 2 nil false "a"
AssignValues == {0, 1, MaxInt, 101, 103, 107}
\* 1  var g = G;
\* 2  fun side(v) { print "rhs"; return v; }
\* 3  print g = A;
\* 4  print g;
\* 5  u = side(A);
\* 6  w = A;
\* 7  fun h() { var l = G; print l = A; { inner = A; } print "unreached"; }
\* 8  h();
\* 9  print "end";
AssignProgram(a, g) ==
    << VarStmt(Ident("g", 1), Num(g)),
       Fun("side", 2, << Ident("v", 2) >>, << PrintStmt(Str("rhs")), Ret(V("v", 2), 2) >>),
       PrintStmt(Assign(Ident("g", 3), OperandExpr(a, 3))),
       PrintStmt(V("g", 4)),
       ExpressionStmt(Assign(Ident("u", 5), Call1(V("side", 5), OperandExpr(a, 5), 5))),
       ExpressionStmt(Assign(Ident("w", 6), OperandExpr(a, 6))),
       Fun("h", 7, <<>>,
           << VarStmt(Ident("l", 7), Num(g)),
              PrintStmt(Assign(Ident("l", 7), OperandExpr(a, 7))),
              BlockStmt(<< ExpressionStmt(Assign(Ident("inner", 7), OperandExpr(a, 7))) >>),
              PrintStmt(Str("unreached")) >>),
       ExpressionStmt(Call0(V("h", 8), 8)),
       PrintStmt(Str("end")) >>

\* the number of iterations of the loop of the return programs
LoopLimit == MaxInt + 1
\* 1  var i = 0;
\* 2  fun f(n) {
\* 3    while (i < LoopLimit) {
\* 4      { if (i == n) return i;           (b = 0)      return;   (b = 1)
\* 5        print "loop"; }
\* 6      i = i + 1; }
\* 7    print "after"; }
\* 8  fun g(n) { var r = f(n); print "g continues"; return r; }
\* 9  print g(N);
\* 10 print "end";
ReturnProgram(n, b) ==
    << VarStmt(Ident("i", 1), Num(0)),
       Fun("f", 2, << Ident("n", 2) >>,
           << WhileStmt(Binary(V("i", 3), Op("LESS", 3), Num(LoopLimit)),
                        BlockStmt(
                          << BlockStmt(
                               << IfStmt(Binary(V("i", 4), Op("EQUALEQUAL", 4), V("n", 4)),
                                         Ret(IF b = 0 THEN V("i", 4) ELSE Literal(None), 4),
                                         <<>>),
                                  PrintStmt(Str("loop")) >>),
                             ExpressionStmt(
                               Assign(Ident("i", 6),
                                      Binary(V("i", 6), Op("PLUS", 6), Num(1)))) >>)),
              PrintStmt(Str("after")) >>),
       Fun("g", 8, << Ident("n", 8) >>,
           << VarStmt(Ident("r", 8), Call1(V("f", 8), V("n", 8), 8)),
              PrintStmt(Str("g continues")),
              Ret(V("r", 8), 8) >>),
       PrintStmt(Call1(V("g", 9), Num(n), 9)),
       PrintStmt(Str("end")) >>

\* 1  class K { m() { return "method"; } }
\* 2  var o = K();
\* 3  var p = K();
\* 4  print o.m = A;
\* 5  print o.m;
\* 6  print p.m();
\* 7  print K().m();
\* 8  o.m = B;
\* 9  print o.m;
SetProgram(a, b) ==
    << ClassStmt(Ident("K", 1), <<>>,
         << Fun("m", 1, <<>>, << Ret(Str("method"), 1) >>) >>),
       VarStmt(Ident("o", 2), Call0(V("K", 2), 2)),
       VarStmt(Ident("p", 3), Call0(V("K", 3), 3)),
       PrintStmt(Set(V("o", 4), Ident("m", 4), OperandExpr(a, 4))),
       PrintStmt(Get(V("o", 5), Ident("m", 5))),
       PrintStmt(Call0(Get(V("p", 6), Ident("m", 6)), 6)),
       PrintStmt(Call0(Get(Call0(V("K", 7), 7), Ident("m", 7)), 7)),
       ExpressionStmt(Set(V("o", 8), Ident("m", 8), Num(b))),
       PrintStmt(Get(V("o", 9), Ident("m", 9))) >>

\* 1  class P {}
\* 2  class K { init(v, w) { print "init"; this.x = v;
\*                           print -"s";            (b = 1 only)
\*                           this.y = w; } }
\* 3  var e = P();
\* 4  var o = K(A, W);
\* 5  print o.x;
\* 6  print o.y;
ConstructProgram(a, b, w) ==
    << ClassStmt(Ident("P", 1), <<>>, <<>>),
       ClassStmt(Ident("K", 2), <<>>,
         << Fun("init", 2, << Ident("v", 2), Ident("w", 2) >>,
                << PrintStmt(Str("init")),
                   ExpressionStmt(Set(ThisAt(2), Ident("x", 2), V("v", 2))) >>
                \o (IF b = 1
                    THEN << PrintStmt(Unary(Op("MINUS", 2), Str("s"))) >>
                    ELSE <<>>)
                \o << ExpressionStmt(Set(ThisAt(2), Ident("y", 2), V("w", 2))) >>) >>),
       VarStmt(Ident("e", 3), Call0(V("P", 3), 3)),
       VarStmt(Ident("o", 4),
               Call(V("K", 4), Paren(4), << OperandExpr(a, 4), Num(w) >>)),
       PrintStmt(Get(V("o", 5), Ident("x", 5))),
       PrintStmt(Get(V("o", 6), Ident("y", 6))) >>

\* how the blocks of the frame programs end: normally, by a RuntimeError,
\* by a return
ExitPaths == 0 .. 2
\* the statement that ends a block of the frame programs
BlockExit(b, line) ==
    CASE b = 0 -> <<>>
      [] b = 1 -> << PrintStmt(Unary(Op("MINUS", line), Str("s"))) >>
      [] b = 2 -> << Ret(V("a", line), line) >>
\* 1  var a = "global";
\* 2  class A {}
\* 3  class B < A { m() { return 1; } }
\* 4  fun f() { var a = "f";
\* 5            { var a = "block"; EXIT }      EXIT: nothing, print -"s"; or return a;
\* 6            print a;
\* 7            return a; }
\* 8  fun g() { var a = "g"; print f();
\* 9            print a; }
\* 10 g();
\* 11 { var a = "top"; EXIT }                  EXIT: nothing or print -"s";
\* 12 print a;
FrameProgram(b) ==
    << VarStmt(Ident("a", 1), Str("global")),
       ClassStmt(Ident("A", 2), <<>>, <<>>),
       ClassStmt(Ident("B", 3), << V("A", 3) >>,
         << Fun("m", 3, <<>>, << Ret(Num(1), 3) >>) >>),
       Fun("f", 4, <<>>,
           << VarStmt(Ident("a", 4), Str("f")),
              BlockStmt(<< VarStmt(Ident("a", 5), Str("block")) >> \o BlockExit(b, 5)),
              PrintStmt(V("a", 6)),
              Ret(V("a", 7), 7) >>),
       Fun("g", 8, <<>>,
           << VarStmt(Ident("a", 8), Str("g")),
              PrintStmt(Call0(V("f", 8), 8)),
              PrintStmt(V("a", 9)) >>),
       ExpressionStmt(Call0(V("g", 10), 10)),
       BlockStmt(<< VarStmt(Ident("a", 11), Str("top")) >>
                 \o (IF b = 1 THEN BlockExit(b, 11) ELSE <<>>)),
       PrintStmt(V("a", 12)) >>

\* the distances of the assign_at programs
Distances == 0 .. 2
\* `statements` inside d nested blocks
RECURSIVE Nested(_, _)
Nested(d, statements) ==
    IF d = 0 THEN statements ELSE << BlockStmt(Nested(d - 1, statements)) >>
\* 1  { var x = 0; var y = "y";
\* 2    { .. { x = A;              inside d blocks
\* 3           print x;
\* 4           print y; } .. } }
AssignAtProgram(a, d) ==
    << BlockStmt(<< VarStmt(Ident("x", 1), Num(0)),
                    VarStmt(Ident("y", 1), Str("y")) >>
                 \o Nested(d, << ExpressionStmt(Assign(Ident("x", 2), Num(a))),
                                 PrintStmt(V("x", 3)),
                                 PrintStmt(V("y", 4)) >>)) >>

\* 1  var a = "global";     (b = 0)       var z = "global";    (b = 1)
\* 2  { var a = "local"; print a; { print a; } }
\* the block is written on one line (c = 0), or with the inner block on the
\* next line (c = 1)
SameLineProgram(b, c) ==
    << VarStmt(Ident(IF b = 0 THEN "a" ELSE "z", 1), Str("global")),
       BlockStmt(<< VarStmt(Ident("a", 2), Str("local")),
                    PrintStmt(V("a", 2)),
                    BlockStmt(<< PrintStmt(V("a", 2 + c)) >>) >>) >>

\* the statements `var i = 0; while (i < A) { i = i + 1; print "body"; }`
CountingLoop(a) ==
    << VarStmt(Ident("i", 1), Num(0)),
       WhileStmt(Binary(V("i", 2), Op("LESS", 2), Num(a)),
                 BlockStmt(<< ExpressionStmt(
                                Assign(Ident("i", 3),
                                       Binary(V("i", 3), Op("PLUS", 3), Num(1)))),
                              PrintStmt(Str("body")) >>)) >>
\* b = 0, a global counter:            b = 1, a block-local counter:
\* 1  var i = 0;                       1  { var i = 0;
\* 2  while (i < A)                    2    while (i < A)
\* 3  { i = i + 1; print "body"; }     3    { i = i + 1; print "body"; } }
\* 4  print "end";                     4  print "end";
WhileProgram(a, b) ==
    (IF b = 0 THEN CountingLoop(a) ELSE << BlockStmt(CountingLoop(a)) >>)
    \o << PrintStmt(Str("end")) >>

\* 1  var K = "outer";
\* 2  class A { init() {} m() {} }
\* 3  class B < A { init() {} m() {} n() {} }     (a = 1)
\*    class B { init() {} m() {} n() {} }         (a = 0)
\* 4  { class K < A { m() {} }
\* 5    print K; }
\* 6  class X < undefinedY { m() {} }
\* 7  print K;
ClassDeclProgram(a) ==
    << VarStmt(Ident("K", 1), Str("outer")),
       ClassStmt(Ident("A", 2), <<>>,
         << Fun("init", 2, <<>>, <<>>), Fun("m", 2, <<>>, <<>>) >>),
       ClassStmt(Ident("B", 3), IF a = 1 THEN << V("A", 3) >> ELSE <<>>,
         << Fun("init", 3, <<>>, <<>>), Fun("m", 3, <<>>, <<>>),
            Fun("n", 3, <<>>, <<>>) >>),
       BlockStmt(<< ClassStmt(Ident("K", 4), << V("A", 4) >>,
                              << Fun("m", 4, <<>>, <<>>) >>),
                    PrintStmt(V("K", 5)) >>),
       ClassStmt(Ident("X", 6), << V("undefinedY", 6) >>,
                 << Fun("m", 6, <<>>, <<>>) >>),
       PrintStmt(V("K", 7)) >>

\* 1  fun f() {}
\* 2  class K {}
\* 3  var o = K();
\* 4  var s = X;
\* 5  var D = "before";    (b = 1)         var d = "before";    (b = 0)
\* 6  class D < s { m() {} }
\* 7  print "end";
SuperclassProgram(x, b) ==
    << Fun("f", 1, <<>>, <<>>),
       ClassStmt(Ident("K", 2), <<>>, <<>>),
       VarStmt(Ident("o", 3), Call0(V("K", 3), 3)),
       VarStmt(Ident("s", 4), OperandExpr(x, 4)),
       VarStmt(Ident(IF b = 1 THEN "D" ELSE "d", 5), Str("before")),
       ClassStmt(Ident("D", 6), << V("s", 6) >>, << Fun("m", 6, <<>>, <<>>) >>),
       PrintStmt(Str("end")) >>

\* where the recursive function is declared: at top level, in a block, in
\* the body of another function
DeclaringScopes == 0 .. 2
\* the largest argument of the recursive programs: sum(N) makes N + 1
\* nested calls
RecursionLimit == MaxInt - 1
\* fun sum(n) { if (n == 0) return 0;
\*              return n + sum(n - 1); }
SumFunction(line) ==
    Fun("sum", line, << Ident("n", line) >>,
        << IfStmt(Binary(V("n", line), Op("EQUALEQUAL", line), Num(0)),
                  Ret(Num(0), line), <<>>),
           Ret(Binary(V("n", line + 1), Op("PLUS", line + 1),
                      Call1(V("sum", line + 1),
                            Binary(V("n", line + 1), Op("MINUS", line + 1), Num(1)),
                            line + 1)),
               line + 1) >>)
\* b = 0:  1  fun sum(n) { .. }
\*         3  print sum(N);
\* b = 1:  1  { fun sum(n) { .. }
\*         3    print sum(N); }
\* b = 2:  1  fun outer() { fun sum(n) { .. }
\*         3                return sum(N); }
\*         4  print outer();
\* then    5  print "end";
RecursionProgram(n, b) ==
    (CASE b = 0 -> << SumFunction(1), PrintStmt(Call1(V("sum", 3), Num(n), 3)) >>
       [] b = 1 -> << BlockStmt(<< SumFunction(1),
                                   PrintStmt(Call1(V("sum", 3), Num(n), 3)) >>) >>
       [] b = 2 -> << Fun("outer", 1, <<>>,
                          << SumFunction(1),
                             Ret(Call1(V("sum", 3), Num(n), 3), 3) >>),
                      PrintStmt(Call0(V("outer", 4), 4)) >>)
    \o << PrintStmt(Str("end")) >>

\* 1  var a = A;
\* 2  var a = B;
\* 3  print a;
\* 4  { var a = "inner";
\* 5    print a;
\* 6    var a = "again";
\* 7    print a; }
\* 8  print a;
DefineProgram(a, b) ==
    << VarStmt(Ident("a", 1), Num(a)),
       VarStmt(Ident("a", 2), Num(b)),
       PrintStmt(V("a", 3)),
       BlockStmt(<< VarStmt(Ident("a", 4), Str("inner")),
                    PrintStmt(V("a", 5)),
                    VarStmt(Ident("a", 6), Str("again")),
                    PrintStmt(V("a", 7)) >>),
       PrintStmt(V("a", 8)) >>

\* the calls of the call-order programs: which function gives the callee
\* and which give the two arguments
CallModes ==
    << << "getf2", "a1", "a2" >>, << "notc", "a1", "a2" >>, << "getf1", "a1", "a2" >>,
       << "getf2", "bad", "a2" >>, << "bad", "a1", "a2" >>, << "getf2", "a1", "bad" >> >>
\* a function without parameters that prints its name and returns a value
Printing(name, line, value) ==
    Fun(name, line, <<>>, << PrintStmt(Str(name)), Ret(value, line) >>)
\* 1  fun f2(x, y) { print "body"; }
\* 2  fun f1(x) { print "body"; }
\* 3  fun getf2() { print "getf2"; return f2; }
\* 4  fun getf1() { print "getf1"; return f1; }
\* 5  fun notc() { print "notc"; return "s"; }
\* 6  fun a1() { print "a1"; return 1; }
\* 7  fun a2() { print "a2"; return 2; }
\* 8  fun bad() { print "bad"; return -"s"; }
\* 9  CALLEE()(ARG1(), ARG2());
\* 10 print "end";
CallOrderProgram(b) ==
    << Fun("f2", 1, << Ident("x", 1), Ident("y", 1) >>, << PrintStmt(Str("body")) >>),
       Fun("f1", 2, << Ident("x", 2) >>, << PrintStmt(Str("body")) >>),
       Printing("getf2", 3, V("f2", 3)),
       Printing("getf1", 4, V("f1", 4)),
       Printing("notc", 5, Str("s")),
       Printing("a1", 6, Num(1)),
       Printing("a2", 7, Num(2)),
       Printing("bad", 8, Unary(Op("MINUS", 8), Str("s"))),
       ExpressionStmt(Call(Call0(V(CallModes[b][1], 9), 9), Paren(9),
                           << Call0(V(CallModes[b][2], 9), 9),
                              Call0(V(CallModes[b][3], 9), 9) >>)),
       PrintStmt(Str("end")) >>

\* the Set expressions of the set-order programs: which function gives the
\* target object and which gives the value
SetModes ==
    << << "geto", "val" >>, << "get1", "val" >>, << "geto", "bad" >>, << "bad", "val" >> >>
\* 1  class K {}
\* 2  var o = K();
\* 3  fun geto() { print "geto"; return o; }
\* 4  fun get1() { print "get1"; return 1; }
\* 5  fun val() { print "val"; return A; }
\* 6  fun bad() { print "bad"; return -"s"; }
\* 7  print TARGET().x = VALUE();
\* 8  print "end";
SetOrderProgram(a, b) ==
    << ClassStmt(Ident("K", 1), <<>>, <<>>),
       VarStmt(Ident("o", 2), Call0(V("K", 2), 2)),
       Printing("geto", 3, V("o", 3)),
       Printing("get1", 4, Num(1)),
       Printing("val", 5, Num(a)),
       Printing("bad", 6, Unary(Op("MINUS", 6), Str("s"))),
       PrintStmt(Set(Call0(V(SetModes[b][1], 7), 7), Ident("x", 7),
                     Call0(V(SetModes[b][2], 7), 7))),
       PrintStmt(Str("end")) >>

\* 1  var r = X / Y;
\* 2  print "next";
DivideProgram(x, y) ==
    << VarStmt(Ident("r", 1),
               Binary(OperandExpr(x, 1), Op("SLASH", 1), OperandExpr(y, 1))),
       PrintStmt(Str("next")) >>

Src(id, a, b, c) == [id |-> id, a |-> a, b |-> b, c |-> c]
Sources ==
    {Src("counter", a, 0, 0) : a \in 0 .. MaxInt}
    \cup {Src("capture", a, b, c) : a \in 0 .. MaxInt, b \in 0 .. 2, c \in 0 .. 2}
    \cup {Src("shared", a, b, 0) : a \in 0 .. MaxInt, b \in 0 .. MaxInt}
    \cup {Src("shadow", a, b, 0) : a \in 0 .. MaxInt, b \in 0 .. 3}
    \cup {Src("binary", op, x, y) : op \in 1 .. Len(OpTypes), x \in Operands, y \in Operands}
    \cup {Src("super", a, 0, 0) : a \in 0 .. 1}
    \cup {Src("bound", a, b, 0) : a \in 0 .. MaxInt, b \in 0 .. MaxInt}
    \cup {Src("arity", a, b, 0) : a \in 0 .. 3, b \in 0 .. 2}
    \cup {Src("error", a, 0, 0) : a \in 0 .. MaxInt}
    \cup {Src("loop", a, b, 0) : a \in 0 .. MaxInt, b \in 0 .. 1}
    \cup {Src("rejected", a, 0, 0) : a \in 0 .. 3}
    \cup {Src("init", a, b, 0) : a \in 0 .. MaxInt, b \in 0 .. 1}
    \cup {Src("property", a, 0, 0) : a \in 0 .. MaxInt}
    \cup {Src("truth", x, 0, 0) : x \in Operands}
    \cup {Src("if", x, b, 0) : x \in Conditions, b \in 0 .. 1}
    \cup {Src("logical", op, x, y) : op \in 1 .. 2, x \in LeftOperands, y \in RightOperands}
    \cup {Src("unary", op, x, 0) : op \in 1 .. 2, x \in Operands}
    \cup {Src("assign", a, g, 0) : a \in AssignValues, g \in 0 .. MaxInt}
    \cup {Src("return", n, b, 0) : n \in 0 .. LoopLimit, b \in 0 .. 1}
    \cup {Src("set", a, b, 0) : a \in AssignValues, b \in 0 .. MaxInt}
    \cup {Src("construct", a, b, w) : a \in AssignValues, b \in 0 .. 1, w \in 0 .. MaxInt}
    \cup {Src("frames", 0, b, 0) : b \in ExitPaths}
    \cup {Src("assign_at", a, d, 0) : a \in 0 .. MaxInt, d \in Distances}
    \cup {Src("same_line", 0, b, c) : b \in 0 .. 1, c \in 0 .. 1}
    \cup {Src("while", a, b, 0) : a \in 0 .. LoopLimit, b \in 0 .. 1}
    \cup {Src("class_decl", a, 0, 0) : a \in 0 .. 1}
    \cup {Src("superclass", x, b, 0) : x \in Operands, b \in 0 .. 1}
    \cup {Src("recursion", n, b, 0) : n \in 0 .. RecursionLimit, b \in DeclaringScopes}
    \cup {Src("define", a, b, 0) : a \in 0 .. MaxInt, b \in 0 .. MaxInt}
    \cup {Src("call_order", 0, b, 0) : b \in 1 .. Len(CallModes)}
    \cup {Src("set_order", a, b, 0) : a \in 0 .. MaxInt, b \in 1 .. Len(SetModes)}
    \cup {Src("divide", x, y, 0) : x \in IntOperands, y \in IntOperands}

\* the statements parser.parse() returns for a source
Program(src) ==
    CASE src.id = "counter" -> CounterProgram(src.a)
      [] src.id = "capture" -> CaptureProgram(src.a, src.b, src.c)
      [] src.id = "shared" -> SharedProgram(src.a, src.b)
      [] src.id = "shadow" -> ShadowProgram(src.a, src.b)
      [] src.id = "binary" -> BinaryProgram(src.a, src.b, src.c)
      [] src.id = "super" -> SuperProgram(src.a)
      [] src.id = "bound" -> BoundProgram(src.a, src.b)
      [] src.id = "arity" -> ArityProgram(src.a, src.b)
      [] src.id = "error" -> ErrorProgram(src.a)
      [] src.id = "loop" -> LoopProgram(src.a, src.b)
      [] src.id = "rejected" -> RejectedProgram(src.a)
      [] src.id = "init" -> InitProgram(src.a, src.b)
      [] src.id = "property" -> PropertyProgram(src.a)
      [] src.id = "truth" -> TruthProgram(src.a)
      [] src.id = "if" -> IfProgram(src.a, src.b)
      [] src.id = "logical" -> LogicalProgram(src.a, src.b, src.c)
      [] src.id = "unary" -> UnaryProgram(src.a, src.b)
      [] src.id = "assign" -> AssignProgram(src.a, src.b)
      [] src.id = "return" -> ReturnProgram(src.a, src.b)
      [] src.id = "set" -> SetProgram(src.a, src.b)
      [] src.id = "construct" -> ConstructProgram(src.a, src.b, src.c)
      [] src.id = "frames" -> FrameProgram(src.b)
      [] src.id = "assign_at" -> AssignAtProgram(src.a, src.b)
      [] src.id = "same_line" -> SameLineProgram(src.b, src.c)
      [] src.id = "while" -> WhileProgram(src.a, src.b)
      [] src.id = "class_decl" -> ClassDeclProgram(src.a)
      [] src.id = "superclass" -> SuperclassProgram(src.a, src.b)
      [] src.id = "recursion" -> RecursionProgram(src.a, src.b)
      [] src.id = "define" -> DefineProgram(src.a, src.b)
      [] src.id = "call_order" -> CallOrderProgram(src.b)
      [] src.id = "set_order" -> SetOrderProgram(src.a, src.b)
      [] src.id = "divide" -> DivideProgram(src.a, src.b)

(***************************************************************************)
(* main.rs::run and Interpreter::interpret                                 *)
(***************************************************************************)
\* Interpreter::new: the global frame with the native clock
Init ==
    /\ source \in Sources
    /\ phase = "parsed"
    /\ pc = 1
    /\ locals = [x \in {} |-> 0]
    /\ environment = globals
    /\ envs = << [Environment_new(0) EXCEPT !.values = Insert(@, "clock", Clock)] >>
    /\ insts = <<>>
    /\ output = <<>>
    /\ errors = <<>>

\* the interpreter's state at the start of a top-level statement
Current ==
    [envs |-> envs, insts |-> insts, environment |-> environment,
     output |-> output, fuel |-> MaxFuel]

\* run() that goes on to interpret whatever the resolver reported
Resolve_ignoring_reports ==
    /\ phase = "parsed"
    /\ locals' = resolve_statements(ResolverNew, Program(source), 1).locals
    /\ phase' = "interpret"
    /\ UNCHANGED <<source, pc, environment, envs, insts, output, errors>>

\* resolver.resolve_statements(&statements)?: a report ends run() before
\* interpret is called
Resolve ==
    /\ phase = "parsed"
    /\ LET R == resolve_statements(ResolverNew, Program(source), 1)
       IN  /\ locals' = R.locals
           /\ phase' = IF R.errors # <<>> THEN "resolve_error" ELSE "interpret"
    /\ UNCHANGED <<source, pc, environment, envs, insts, output, errors>>

\* the loop of interpret left at the first error
interpret_step_stop(r) ==
    [st |-> r.st,
     reported |-> IF r.k \in {"err", "ret"} THEN << r.msg >> ELSE <<>>,
     phase |-> CASE r.k = "ok" -> "interpret"
                 [] r.k \in {"err", "ret"} -> "done"
                 [] r.k = "panic" -> "aborted"
                 [] r.k = "hang" -> "hung"]

\* one iteration of the loop of Interpreter::interpret: what is kept of
\* the statement's result
interpret_step(r) ==
    [st |-> r.st,
     reported |-> IF r.k \in {"err", "ret"} THEN << r.msg >> ELSE <<>>,
     phase |-> CASE r.k \in {"ok", "err", "ret"} -> "interpret"
                 [] r.k = "panic" -> "aborted"
                 [] r.k = "hang" -> "hung"]

InterpretStatement ==
    /\ phase = "interpret"
    /\ pc <= Len(Program(source))
    /\ LET n == interpret_step(execute(Program(source)[pc], Current))
       IN  /\ envs' = n.st.envs
           /\ insts' = n.st.insts
           /\ environment' = n.st.environment
           /\ output' = n.st.output
           /\ errors' = errors \o n.reported
           /\ phase' = n.phase
           /\ pc' = IF n.phase = "interpret" THEN pc + 1 ELSE pc
    /\ UNCHANGED <<source, locals>>

\* the loop is over: interpret returns Ok(())
Finish ==
    /\ phase = "interpret"
    /\ pc > Len(Program(source))
    /\ phase' = "done"
    /\ UNCHANGED <<source, pc, locals, environment, envs, insts, output, errors>>

Next == Resolve \/ InterpretStatement \/ Finish

Spec == Init /\ [][Next]_vars

(***************************************************************************)
(* Properties                                                              *)
(***************************************************************************)
\* run() is over: interpret returned, the resolver reported, the process
\* aborted, or the statement did not end within the fuel
FinalPhases == {"done", "resolve_error", "aborted", "hung"}
Global(name) == envs[globals].values[name]
HasGlobal(name) == name \in DOMAIN envs[globals].values

\* C1: the makeCounter program prints the initial value of i plus one and
\* then plus two (1 then 2 for i = 0): the assignment made by the closure
\* to its captured frame persists across its calls.
C1_CounterCounts ==
    (source.id = "counter" /\ phase \in FinalPhases) =>
        /\ phase = "done"
        /\ output = << ToString(source.a + 1), ToString(source.a + 2) >>

\* C2: a function created inside a block or a call and called after that
\* block or call has exited reads the variable of the frame it captured,
\* with its current value, whatever frame is current at the call, even one
\* that defines the same name.
C2_ClosureReadsCapturedFrame ==
    (source.id = "capture" /\ phase \in FinalPhases) =>
        /\ phase = "done"
        /\ errors = <<>>
        /\ output = << ToString(IF source.b = 1 THEN source.a + 1 ELSE source.a) >>
C2_Witness ==
    /\ source.id = "capture" /\ source.b = 2 /\ source.c = 1 /\ source.a = 2
    /\ phase = "done"
    /\ output = << "2" >>

\* C3: after one of two closures that share a captured frame has assigned
\* to a variable of that frame, the other closure reads the assigned value.
C3_SharedFrameAssignmentSeen ==
    (source.id = "shared" /\ phase \in FinalPhases) =>
        /\ phase = "done"
        /\ output = << ToString(source.b) >>

IsArithmetic(op) == op \in 1 .. 4
IsComparison(op) == op \in 5 .. 8
IntCode(x) == x \in IntOperands
FloatCode(x) == x \in 104 .. 106
StringCode(x) == x \in 107 .. 109
NumberCode(x) == IntCode(x) \/ FloatCode(x)

\* C5: for + - * / and > >= < <=, two Integer operands give an Integer
\* (arithmetic) or a Bool (comparison); an Integer/Float mix and two Floats
\* give a Float (arithmetic; 1 + 1.0 is the Float 2) or a Bool; + on two
\* Strings gives their concatenation; "a" + 1 is a RuntimeError.
C5_BinaryOperandTypes ==
    (source.id = "binary" /\ source.a \in 1 .. 8 /\ phase \in FinalPhases) =>
        LET op == source.a
            x == source.b
            y == source.c
        IN  /\ (NumberCode(x) /\ NumberCode(y)) =>
                   /\ phase = "done" /\ errors = <<>> /\ HasGlobal("r")
                   /\ Global("r").t =
                        IF IsComparison(op) THEN "Bool"
                        ELSE IF IntCode(x) /\ IntCode(y) THEN "Isize" ELSE "Float"
            /\ (OpTypes[op] = "PLUS" /\ x = 1 /\ y = 105) => Global("r") = Float(2, 1)
            /\ (OpTypes[op] = "PLUS" /\ x = 1 /\ y = 1) => Global("r") = Isize(2)
            /\ (OpTypes[op] = "PLUS" /\ StringCode(x) /\ StringCode(y)) =>
                   /\ phase = "done" /\ errors = <<>> /\ HasGlobal("r")
                   /\ Global("r") = LString(OperandValue(x).s \o OperandValue(y).s)
            /\ (OpTypes[op] = "PLUS" /\ StringCode(x) /\ NumberCode(y)) =>
                   /\ phase = "done" /\ ~HasGlobal("r")
                   /\ errors = << "Operands must be numbers." >>

\* C6: == and != never raise, for any pair of values; == is true exactly
\* when both operands are the same primitive variant with the same value,
\* false for every other pair (Integer against Float included), and != is
\* its negation.
C6_EqualityTotal ==
    (source.id = "binary" /\ source.a \in 9 .. 10 /\ phase \in FinalPhases) =>
        LET same == /\ source.b \in LiteralOperands
                    /\ source.c \in LiteralOperands
                    /\ OperandValue(source.b) = OperandValue(source.c)
        IN  /\ phase = "done"
            /\ errors = <<>>
            /\ HasGlobal("r")
            /\ Global("r") = Bool(IF OpTypes[source.a] = "EQUALEQUAL" THEN same ELSE ~same)
C6_Witness ==
    /\ source.id = "binary" /\ OpTypes[source.a] = "EQUALEQUAL"
    /\ source.b = 1 /\ source.c = 105
    /\ phase = "done"
    /\ HasGlobal("r") /\ Global("r") = Bool(FALSE)

\* C7: super.m() in a method of B (superclass A) calls A's m with `this`
\* the original receiver, also for a receiver of the subclass C that
\* overrides m (the first line printed reads the receiver's field in A's
\* m); a method the superclass does not have is a RuntimeError.
C7_SuperCallsSuperclassMethod ==
    (source.id = "super" /\ phase \in FinalPhases) =>
        /\ phase = "done"
        /\ output = << "xA", IF source.a = 0 THEN "B" ELSE "C", "end" >>
        /\ errors = << "Undefined propertiesperty 'nope' '." >>
C7_Witness ==
    /\ source.id = "super" /\ source.a = 1
    /\ phase = "done"
    /\ output = << "xA", "C", "end" >>

\* C8: a method taken from obj by property access has `this` bound to obj
\* on every path it is called through (a variable, a field of another
\* instance, an argument); each access makes a new Function whose closure
\* is a new frame that holds only `this` and encloses the method's
\* closure; the field writes made through `this` are seen through obj.
C8_BoundMethodKeepsReceiver ==
    (source.id = "bound" /\ phase \in FinalPhases) =>
        /\ phase = "done"
        /\ errors = <<>>
        /\ output = << ToString(source.a), ToString(source.a), ToString(source.b) >>
        /\ LET m == Global("m")
               n == Global("n")
               o == Global("o")
           IN  /\ m.t = "Func" /\ n.t = "Func"
               /\ m.closure # n.closure
               /\ \A f \in {m, n} :
                     /\ DOMAIN envs[f.closure].values = {"this"}
                     /\ envs[f.closure].values["this"].fields = o.fields
                     /\ envs[f.closure].enclosing = o.class.methods["set"].closure
               /\ insts[o.fields]["x"] = Isize(source.b)
               /\ "x" \notin DOMAIN insts[Global("p").fields]
C8_Witness ==
    /\ source.id = "bound" /\ source.a = 1 /\ source.b = 2
    /\ phase = "done"
    /\ output = << "1", "1", "2" >>

\* C9: a call of a Function, of clock or of a Class with a number of
\* arguments other than its arity (for a Class that of init, or 0) is a
\* RuntimeError; then neither the body nor init runs and no Instance is
\* made.
CalleeArity(a) == IF Callees[a + 1] \in {"f", "K"} THEN 1 ELSE 0
C9_ArityMismatch ==
    (source.id = "arity" /\ phase \in FinalPhases) =>
        /\ phase = "done"
        /\ IF source.b # CalleeArity(source.a)
           THEN /\ errors = << "Expected " \o ToString(CalleeArity(source.a))
                               \o " arguments but got " \o ToString(source.b) \o "." >>
                /\ output = << "end" >>
                /\ insts = <<>>
           ELSE /\ errors = <<>>
                /\ output = CASE Callees[source.a + 1] = "f" -> << "body", "end" >>
                              [] Callees[source.a + 1] = "K" -> << "init", "end" >>
                              [] OTHER -> << "end" >>
                /\ Len(insts) = IF Callees[source.a + 1] \in {"K", "L"} THEN 1 ELSE 0
C9_Witness ==
    /\ source.id = "arity" /\ Callees[source.a + 1] = "K" /\ source.b = 2
    /\ phase = "done"
    /\ errors = << "Expected 1 arguments but got 2." >>
    /\ insts = <<>>

\* C10: interpret executes the top-level statements in order, each once;
\* a statement that ends in a RuntimeError is abandoned and reported, the
\* statements after it are executed, and what it did before the error
\* (a print, an assignment, a field write) stays.
C10_InterpretContinuesAfterError ==
    /\ phase = "done" => pc = Len(Program(source)) + 1
    /\ (source.id = "error" /\ phase \in FinalPhases) =>
           /\ phase = "done"
           /\ output = << "in g", ToString(source.a + 1), "1", "end" >>
           /\ errors = << "Operands must be numbers.",
                          "Undefined variableble 'undefinedVar'.",
                          "Undefined variableble 'u'." >>
           /\ ~HasGlobal("u")
C10_Witness ==
    /\ source.id = "error" /\ source.a = 1
    /\ phase = "done"
    /\ Len(errors) = 3
    /\ output = << "in g", "2", "1", "end" >>

\* C11: when the resolver reports an error for a program, no statement of
\* the program is ever executed: run() never reaches interpret, nothing is
\* printed, and the frames and the instances stay as Interpreter::new left
\* them.
C11_ResolveErrorSkipsInterpretation ==
    (resolve_statements(ResolverNew, Program(source), 1).errors # <<>>) =>
        /\ phase \in {"parsed", "resolve_error"}
        /\ pc = 1
        /\ output = <<>> /\ errors = <<>> /\ insts = <<>>
        /\ environment = globals
        /\ envs = << [Environment_new(0) EXCEPT !.values = Insert(@, "clock", Clock)] >>
C11_Witness ==
    /\ source.id = "rejected" /\ source.a = 0
    /\ phase = "resolve_error"
    /\ output = <<>> /\ insts = <<>>

\* C12: a call of a bound initializer returns the instance bound as `this`,
\* when its body falls through and when its body executes `return;`; an
\* ordinary function returns nil on fall-through and the returned value on
\* return.
C12_InitializerReturnsThis ==
    (source.id = "init" /\ phase \in FinalPhases) =>
        /\ phase = "done" /\ errors = <<>>
        /\ HasGlobal("r") /\ HasGlobal("o")
        /\ Global("r").t = "Instance"
        /\ Global("r").fields = Global("o").fields
        /\ Global("p") = None
        /\ Global("q") = Isize(source.a)

\* C13: property access on an instance returns the field of that name if
\* there is one, otherwise the method of that name of the instance's class
\* or of the nearest class of its superclass chain, bound to the instance;
\* a name that no class of the chain defines, and access on a value that is
\* not an instance, are RuntimeErrors.
C13_PropertyLookupFollowsChain ==
    (source.id = "property" /\ phase \in FinalPhases) =>
        /\ phase = "done"
        /\ output = << ToString(source.a), "B.n", "A.m", "end" >>
        /\ errors = << "Undefined property 'nope'", "Only instances have properties." >>

\* the operand codes of nil and false
FalsyCode(x) == x \in {101, 103}

\* C14: the truthiness used by `if` and `!` is false exactly for nil and
\* false and true for every other value: 0, 0.0, "", functions, the native
\* clock, classes and instances are truthy.
C14_TruthinessRule ==
    (source.id = "truth" /\ phase \in FinalPhases) =>
        /\ phase = "done" /\ errors = <<>>
        /\ output = IF FalsyCode(source.a) THEN << "end" >> ELSE << "t", "end" >>
        /\ Global("r") = Bool(FalsyCode(source.a))

\* C15: an If statement executes exactly one branch: the then-branch when
\* the condition is truthy, otherwise the else-branch when there is one;
\* with a truthy condition the else-branch is not executed.
C15_IfExecutesOneBranch ==
    (source.id = "if" /\ phase \in FinalPhases) =>
        /\ phase = "done" /\ errors = <<>>
        /\ output = CASE ~FalsyCode(source.a) -> << "then", "end" >>
                      [] FalsyCode(source.a) /\ source.b = 1 -> << "else", "end" >>
                      [] OTHER -> << "end" >>

\* the value an operand of the logical programs evaluates to
OperandResult(x) ==
    CASE x = 110 -> Global("f")
      [] x = 112 -> Global("o")
      [] OTHER -> OperandValue(x)

\* C16: `a or b` evaluates b only when a is falsy and `a and b` only when a
\* is truthy; the result is the value of the operand that decided, not a
\* Bool made from it, and a is evaluated exactly once.
C16_LogicalShortCircuit ==
    (source.id = "logical" /\ phase \in FinalPhases) =>
        LET short == IF source.a = 1 THEN ~FalsyCode(source.b) ELSE FalsyCode(source.b)
        IN  /\ phase = "done" /\ errors = <<>>
            /\ output = IF short THEN << "a" >> ELSE << "a", "b" >>
            /\ Global("r") = IF short THEN OperandResult(source.b)
                             ELSE OperandResult(source.c)

\* C17: unary `-` on an Integer or a Float gives the negated number of the
\* same variant and on every other value a RuntimeError; unary `!` on a
\* value gives true exactly when the value is falsy and false otherwise.
C17_UnaryOperators ==
    (source.id = "unary" /\ phase \in FinalPhases) =>
        LET x == source.b
        IN  /\ phase = "done"
            /\ (source.a = 1 /\ IntCode(x)) =>
                   (errors = <<>> /\ Global("r") = Isize(-x))
            /\ (source.a = 1 /\ FloatCode(x)) =>
                   (errors = <<>> /\ Global("r") = FNeg(OperandValue(x)))
            /\ (source.a = 1 /\ ~NumberCode(x)) =>
                   (errors = << "Operand must be a number." >> /\ ~HasGlobal("r"))
            /\ (source.a = 2) =>
                   (errors = <<>> /\ Global("r") = Bool(FalsyCode(x)))

\* C18: + - * / > >= < <= applied to an operand pair that is neither two
\* numbers nor (for +) two Strings, operands nil, Bool, Function, native
\* function, Class and Instance included, is a RuntimeError ("Operands must
\* be numbers.") that interpret reports; the interpreter never aborts.
C18_OperandMismatchIsRuntimeError ==
    (source.id = "binary" /\ source.a \in 1 .. 8 /\ phase \in FinalPhases) =>
        LET op == source.a
            x == source.b
            y == source.c
        IN  (/\ ~(NumberCode(x) /\ NumberCode(y))
             /\ ~(OpTypes[op] = "PLUS" /\ StringCode(x) /\ StringCode(y))) =>
                /\ phase = "done"
                /\ errors = << "Operands must be numbers." >>
                /\ ~HasGlobal("r")

\* the names the assignment programs assign without declaring them
Undeclared == {"u", "w", "inner"}
NoFrameDefines(heap, names) ==
    \A i \in 1 .. Len(heap) : DOMAIN heap[i].values \cap names = {}

\* C19: an assignment to a name the resolver did not bind and the global
\* frame does not define is the RuntimeError "Undefined variable": its
\* right-hand side has been evaluated, no frame gets the name and every frame
\* that existed keeps its values; a successful assignment (global or local)
\* evaluates to the assigned value.
C19_AssignUndefinedIsError ==
    /\ [](source.id = "assign" =>
             /\ NoFrameDefines(envs, Undeclared)
             /\ phase \in FinalPhases =>
                  /\ phase = "done"
                  /\ errors = << "Undefined variable 'u'", "Undefined variable 'w'",
                                 "Undefined variable 'inner'" >>
                  /\ LET A == Stringify(OperandValue(source.a))
                     IN  output = << A, A, "rhs", A, "end" >>
                  /\ Global("g") = OperandValue(source.a))
    /\ [][(source.id = "assign" /\ phase = "interpret") =>
             /\ pc = 5 => /\ errors' = << "Undefined variable 'u'" >>
                          /\ output' = Append(output, "rhs")
                          /\ SubSeq(envs', 1, Len(envs)) = envs
             /\ pc = 6 => /\ Len(errors') = Len(errors) + 1
                          /\ output' = output
                          /\ envs' = envs
             /\ pc = 8 => /\ Len(errors') = Len(errors) + 1
                          /\ SubSeq(envs', 1, Len(envs)) = envs]_vars

C19_Witness ==
    /\ source.id = "assign"
    /\ phase = "done"
    /\ Len(errors) = 3
    /\ Len(output) = 5 /\ output[3] = "rhs"
    /\ ~HasGlobal("u")

\* what the return programs print while f loops: "loop" once per iteration
Loops(n) == [k \in 1 .. n |-> "loop"]

\* C20: a return inside the nested blocks of a while loop of f ends the call
\* of f and nothing else: no later statement of f's body runs ("loop" is
\* printed only for the iterations before it, "after" never), the call is
\* the returned value (nil for `return;`), the caller g goes on with its
\* own statements and returns in turn, the script goes on after g, and no
\* error is reported.  When f never returns it runs to its end and is nil.
C20_ReturnEndsNearestCall ==
    source.id = "return" =>
        LET n == source.a
            returns == n < LoopLimit
        IN  /\ errors = <<>>
            /\ returns => \A k \in 1 .. Len(output) : output[k] # "after"
            /\ phase \in FinalPhases =>
                 /\ phase = "done"
                 /\ environment = globals
                 /\ Global("i") = Isize(n)
                 /\ output =
                      IF returns
                      THEN Loops(n) \o << "g continues",
                                          IF source.b = 0 THEN ToString(n) ELSE "nil",
                                          "end" >>
                      ELSE Loops(n) \o << "after", "g continues", "nil", "end" >>

C20_Witness ==
    /\ source.id = "return" /\ source.a = 2 /\ source.b = 0
    /\ phase = "done"
    /\ output = << "loop", "loop", "g continues", "2", "end" >>

\* C21: a Set on an instance writes the field table of that instance, also
\* under the name of a method of its class: the Set evaluates to the value,
\* a following Get on the instance is the field value (the last one written),
\* the other instances of the class, old and new, still get the method, and
\* the method table of the class stays as the declaration built it.
C21_FieldShadowsMethod ==
    /\ [](source.id = "set" =>
            /\ errors = <<>>
            /\ (phase = "interpret" /\ pc > 4) =>
                  /\ insts[Global("o").fields] =
                        [n \in {"m"} |-> IF pc > 8 THEN Isize(source.b)
                                         ELSE OperandValue(source.a)]
                  /\ insts[Global("p").fields] = EmptyMap
            /\ phase \in FinalPhases =>
                  /\ phase = "done"
                  /\ LET A == Stringify(OperandValue(source.a))
                     IN  output = << A, A, "method", "method", ToString(source.b) >>)
    /\ [][(source.id = "set" /\ phase = "interpret" /\ pc > 1) =>
             /\ HasGlobal("K")' /\ Global("K")' = Global("K")
             /\ DOMAIN Global("K").methods = {"m"}]_vars

C21_Witness ==
    /\ source.id = "set" /\ source.a = 107 /\ source.b = 1
    /\ phase = "done"
    /\ output = << "a", "a", "method", "method", "1" >>
    /\ insts[Global("o").fields] = [n \in {"m"} |-> Isize(1)]

\* C22: calling a class makes exactly one new instance, with an empty field
\* table; a class with `init` has it bound to the instance and called once
\* with the arguments of the call, and the instance the call returns has
\* the fields `init` wrote through `this`; a RuntimeError inside `init` is
\* the error of the call, which then returns no instance.
C22_ClassCallConstructs ==
    /\ [](source.id = "construct" =>
            /\ (phase = "interpret" /\ pc > 3) =>
                  /\ Global("e").t = "Instance"
                  /\ insts[Global("e").fields] = EmptyMap
            /\ (phase \in FinalPhases /\ source.b = 0) =>
                  /\ phase = "done" /\ errors = <<>>
                  /\ output = << "init", Stringify(OperandValue(source.a)),
                                 ToString(source.c) >>
                  /\ Global("o").t = "Instance"
                  /\ Global("o").fields # Global("e").fields
                  /\ insts[Global("o").fields] =
                        [n \in {"x", "y"} |-> IF n = "x" THEN OperandValue(source.a)
                                              ELSE Isize(source.c)]
            /\ (phase \in FinalPhases /\ source.b = 1) =>
                  /\ phase = "done"
                  /\ output = << "init" >>
                  /\ Len(errors) = 3 /\ errors[1] = "Operand must be a number."
                  /\ ~HasGlobal("o"))
    /\ [][(source.id = "construct" /\ phase = "interpret" /\ pc \in {3, 4}) =>
             /\ Len(insts') = Len(insts) + 1
             /\ SubSeq(insts', 1, Len(insts)) = insts]_vars

C22_Witness ==
    /\ source.id = "construct" /\ source.a = 107 /\ source.b = 0 /\ source.c = 2
    /\ phase = "done"
    /\ output = << "init", "a", "2" >>
    /\ Len(insts) = 2

\* C23: a block and a function body leave the current frame as it was on
\* entry, whether they end normally, by a RuntimeError or by a return, and a
\* class declaration pops the `super` frame it pushed: every top-level
\* statement of every program starts (and the script ends) with the global
\* frame current, the statements after a block read the frame of before the
\* block, and a caller reads its own frame after the call.
C23_CurrentFrameRestored ==
    /\ phase \in {"parsed", "interpret", "done"} => environment = globals
    /\ (source.id = "frames" /\ phase \in FinalPhases) =>
          /\ phase = "done"
          /\ Global("a") = LString("global")
          /\ source.b = 0 => (output = << "f", "f", "g", "global" >> /\ errors = <<>>)
          /\ source.b = 1 => /\ output = << "global" >>
                             /\ errors = << "Operand must be a number.",
                                            "Operand must be a number." >>
          /\ source.b = 2 => (output = << "block", "g", "global" >> /\ errors = <<>>)

C23_Witness ==
    /\ source.id = "frames" /\ source.b = 1
    /\ phase = "done"
    /\ Len(errors) = 2
    /\ Len(envs) > 3
    /\ environment = globals

\* C24: assign_at(d, n, v), for a name n that the frame d links up defines,
\* sets n to v in that frame, so that get_at(d, n) from the same frame is v
\* afterwards, and changes nothing else: `x = A` at distance d prints A, the
\* frame of x holds x = A and y as before, and the other frames are as they
\* were.
C24_AssignAtThenGetAt ==
    (source.id = "assign_at" /\ phase \in FinalPhases) =>
        /\ phase = "done" /\ errors = <<>>
        /\ output = << ToString(source.a), "y" >>
        /\ Len(envs) = source.b + 2
        /\ envs[2].values =
              [n \in {"x", "y"} |-> IF n = "x" THEN Isize(source.a) ELSE LString("y")]
        /\ \A i \in 3 .. Len(envs) : envs[i].values = EmptyMap

\* C25: every variable node has its own distance in the binding table: two
\* nodes that read the same name from different depths, also with tokens of
\* the same lexeme and line, are each looked up at their own distance, so
\* both reads of the block's `a` give "local".
C25_DistancePerNode ==
    (source.id = "same_line" /\ phase \in FinalPhases) =>
        /\ phase = "done"
        /\ errors = <<>>
        /\ output = << "local", "local" >>

\* C26: for every node the resolver binds at a distance d, walking d links
\* from the frame current at run time reaches a frame that defines the
\* name: get_at never meets a missing name or a missing enclosing frame, so
\* no program in which the resolver bound a node ends in the abort of
\* get_at (the programs with bound nodes have no other way to abort).
C26_ResolvedDistanceReachesName ==
    (DOMAIN locals # {}) => phase # "aborted"

\* C27: a while loop evaluates its condition before every iteration and
\* ends as soon as it is falsy: the loop `while (i < A) { i = i + 1; .. }`
\* runs its body exactly A times, over a global counter and over a counter
\* local to the enclosing block alike (A = 3: three times), and the script
\* goes on.
C27_WhileTerminates ==
    (source.id = "while" /\ phase \in FinalPhases) =>
        /\ phase = "done"
        /\ errors = <<>>
        /\ output = [k \in 1 .. source.a |-> "body"] \o << "end" >>

\* the frame that is the closure of every method of a class, 0 when two
\* methods have different closures
MethodsClosure(class) ==
    LET closures == {class.methods[m].closure : m \in DOMAIN class.methods}
    IN  IF Cardinality(closures) = 1 THEN CHOOSE f \in closures : TRUE ELSE 0
\* the methods of a class that are flagged as initializer
Initializers(class) == {m \in DOMAIN class.methods : class.methods[m].is_initializer}
\* a frame that defines `super` as the class and nothing else, on `declaring`
IsSuperFrame(f, class, declaring) ==
    /\ f \in 1 .. Len(envs)
    /\ envs[f].enclosing = declaring
    /\ envs[f].values = [n \in {"super"} |-> class]

\* C28: a class declaration evaluates the superclass first (when that fails
\* the name is not bound and no frame is made), defines the name in the
\* current frame (a class declared in a block is bound in the block's frame,
\* not in an outer variable of the same name), gives every method the same
\* closure, the declaring frame or with a superclass one new frame on it
\* that defines only `super`, flags only `init` as initializer, and assigns
\* the class to the name with the declaring frame current again.
C28_ClassDeclarationOrder ==
    (source.id = "class_decl" /\ phase \in FinalPhases) =>
        /\ phase = "done"
        /\ environment = globals
        /\ output = << "K", "outer" >>
        /\ errors = << "Undefined variableble 'undefinedY'." >>
        /\ ~HasGlobal("X")
        /\ Global("K") = LString("outer")
        /\ Global("A").t = "Class" /\ Global("B").t = "Class"
        /\ DOMAIN Global("A").methods = {"init", "m"}
        /\ DOMAIN Global("B").methods = {"init", "m", "n"}
        /\ Initializers(Global("A")) = {"init"}
        /\ Initializers(Global("B")) = {"init"}
        /\ MethodsClosure(Global("A")) = globals
        /\ IF source.a = 1
           THEN /\ MethodsClosure(Global("B")) = 2
                /\ IsSuperFrame(2, Global("A"), globals)
                /\ Len(envs) = 4
           ELSE /\ MethodsClosure(Global("B")) = globals
                /\ Len(envs) = 3
        /\ LET block == Len(envs) - 1
           IN  /\ envs[block].enclosing = globals
               /\ DOMAIN envs[block].values = {"K"}
               /\ envs[block].values["K"].t = "Class"
               /\ MethodsClosure(envs[block].values["K"]) = Len(envs)
               /\ IsSuperFrame(Len(envs), Global("A"), block)

C28_Witness ==
    /\ source.id = "class_decl" /\ source.a = 1
    /\ phase = "done"
    /\ Len(envs) = 4
    /\ MethodsClosure(Global("B")) = 2
    /\ output = << "K", "outer" >>

\* the operand code of the class K
ClassCode(x) == x = 111

\* C29: a class declaration whose superclass expression has a value that is
\* not a class is the RuntimeError "Superclass must be a class.": the class
\* name is not defined, or keeps the value it had, in the current frame, no
\* frame is made and the current frame stays; with a class as superclass
\* the declaration succeeds.
C29_SuperclassMustBeClass ==
    /\ [](source.id = "superclass" /\ phase \in FinalPhases =>
            /\ phase = "done"
            /\ output = << "end" >>
            /\ IF ClassCode(source.a)
               THEN /\ errors = <<>>
                    /\ Global("D").t = "Class"
                    /\ Len(envs) = 2
               ELSE /\ errors = << "Superclass must be a class." >>
                    /\ Len(envs) = 1
                    /\ IF source.b = 1 THEN Global("D") = LString("before")
                       ELSE ~HasGlobal("D"))
    /\ [][(source.id = "superclass" /\ phase = "interpret" /\ pc = 6
           /\ ~ClassCode(source.a)) =>
             /\ envs' = envs
             /\ environment' = environment
             /\ errors' = << "Superclass must be a class." >>]_vars

C29_Witness ==
    /\ source.id = "superclass" /\ source.a = 110 /\ source.b = 1
    /\ phase = "done"
    /\ errors = << "Superclass must be a class." >>
    /\ Global("D") = LString("before")

\* 0 + 1 + .. + n
RECURSIVE SumTo(_)
SumTo(n) == IF n = 0 THEN 0 ELSE n + SumTo(n - 1)

\* C30: a function declaration captures the current frame itself and then
\* defines the function in it, so the body finds the function under its own
\* name: declared at top level, in a block or inside another function,
\* sum(N) recurses N deep and is 0 + 1 + .. + N.
C30_FunctionFindsItself ==
    source.id = "recursion" =>
        /\ errors = <<>>
        /\ phase \in FinalPhases =>
             /\ phase = "done"
             /\ output = << ToString(SumTo(source.a)), "end" >>

C30_Witness ==
    /\ source.id = "recursion" /\ source.a = RecursionLimit /\ source.b = 2
    /\ phase = "done"
    /\ output = << ToString(SumTo(RecursionLimit)), "end" >>
    /\ Len(envs) > RecursionLimit + 2

\* the frames of the chain that starts at frame i, innermost first
RECURSIVE ChainOf(_, _)
ChainOf(heap, i) ==
    IF heap[i].enclosing = 0 THEN << i >> ELSE << i >> \o ChainOf(heap, heap[i].enclosing)
\* the first frame of the chain of i that defines the name, 0 when none does
NearestDefining(heap, i, name) ==
    LET chain == ChainOf(heap, i)
        hits == {k \in 1 .. Len(chain) : name \in DOMAIN heap[chain[k]].values}
    IN  IF hits = {} THEN 0
        ELSE chain[CHOOSE k \in hits : \A j \in hits : k <= j]
\* the names some frame defines, and one that none defines
HeapNames(heap) ==
    UNION {DOMAIN heap[i].values : i \in 1 .. Len(heap)} \cup {"undefinedName"}

\* C31: from every frame of every heap the programs build, get(name) is the
\* value of the nearest frame of the chain that defines the name, an inner
\* definition before an outer one, and the error "Undefined variable" only
\* when no frame of the chain defines it; get is a read, it returns no heap.
C31_GetNearestBinding ==
    \A i \in 1 .. Len(envs) : \A n \in HeapNames(envs) :
        LET f == NearestDefining(envs, i, n)
            r == get(envs, i, n)
        IN  IF f # 0
            THEN r.k = "ok" /\ r.v = envs[f].values[n]
            ELSE r.k = "err" /\ r.msg = "Undefined variableble '" \o n \o "'."

\* a frame that shadows a name of an enclosing frame with another value,
\* and a name that its chain does not define
C31_Witness ==
    \E i \in 1 .. Len(envs) : \E n \in DOMAIN envs[i].values :
        /\ envs[i].enclosing # 0
        /\ NearestDefining(envs, envs[i].enclosing, n) # 0
        /\ get(envs, envs[i].enclosing, n).v # envs[i].values[n]
        /\ get(envs, i, n).v = envs[i].values[n]
        /\ get(envs, i, "undefinedName").k = "err"

\* the value the assignments of C32 write; no program binds it
Marker == LString("assigned")

\* C32: from every frame of every heap the programs build, assign(name, v)
\* writes the nearest frame of the chain that defines the name and only that
\* name there; every other frame, the frames further out that define the
\* same name included, and every other binding stay as they were; when no
\* frame of the chain defines the name it is the error and nothing changes;
\* no frame ever gets a new name.
C32_AssignNearestOnly ==
    \A i \in 1 .. Len(envs) : \A n \in HeapNames(envs) :
        LET f == NearestDefining(envs, i, n)
            r == assign(envs, i, n, Marker)
        IN  /\ Len(r.heap) = Len(envs)
            /\ \A j \in 1 .. Len(envs) :
                  /\ r.heap[j].enclosing = envs[j].enclosing
                  /\ DOMAIN r.heap[j].values = DOMAIN envs[j].values
                  /\ \A m \in DOMAIN envs[j].values :
                        r.heap[j].values[m] =
                           IF j = f /\ m = n THEN Marker ELSE envs[j].values[m]
            /\ IF f # 0 THEN r.k = "ok"
               ELSE r.k = "err" /\ r.msg = "Undefined variable '" \o n \o "'"

\* a frame that does not define a name which two frames further out both
\* define: the assignment from it writes the nearer of the two
C32_Witness ==
    \E i \in 1 .. Len(envs) : \E n \in HeapNames(envs) :
        LET f == NearestDefining(envs, i, n)
        IN  /\ f # 0 /\ f # i
            /\ envs[f].enclosing # 0
            /\ NearestDefining(envs, envs[f].enclosing, n) # 0
            /\ assign(envs, i, n, Marker).heap[f].values[n] = Marker

\* C33: define(name, v) makes v the binding of the name in the local frame,
\* whether the frame had the name or not, and changes no other binding and
\* no other frame (checked from every frame of every heap the programs
\* build); so `var a` twice in one scope is no error and the last value
\* wins, a `var a` in a block shadows the outer `a` without changing it, and
\* the outer value is read again after the block.
C33_DefineLocalOnly ==
    /\ \A i \in 1 .. Len(envs) : \A n \in HeapNames(envs) :
          LET h == define(envs, i, n, Marker)
          IN  /\ Len(h) = Len(envs)
              /\ \A j \in 1 .. Len(envs) :
                    /\ h[j].enclosing = envs[j].enclosing
                    /\ DOMAIN h[j].values =
                          DOMAIN envs[j].values \cup (IF j = i THEN {n} ELSE {})
                    /\ \A m \in DOMAIN h[j].values :
                          h[j].values[m] =
                             IF j = i /\ m = n THEN Marker ELSE envs[j].values[m]
    /\ (source.id = "define" /\ phase \in FinalPhases) =>
          /\ phase = "done" /\ errors = <<>>
          /\ output = << ToString(source.b), "inner", "again", ToString(source.b) >>
          /\ Global("a") = Isize(source.b)
          /\ envs[2] = [enclosing |-> globals,
                        values |-> [n \in {"a"} |-> LString("again")]]

C33_Witness ==
    /\ source.id = "define" /\ source.a = 1 /\ source.b = 2
    /\ phase = "done"
    /\ output = << "2", "inner", "again", "2" >>
    /\ Global("a") = Isize(2)

\* the frame reached from frame i by at most `steps` enclosing links, when
\* it is a frame without enclosing; 0 when the walk has not ended by then
RECURSIVE EndOfChain(_, _, _)
EndOfChain(heap, i, steps) ==
    IF heap[i].enclosing = 0 THEN i
    ELSE IF steps = 0 THEN 0
         ELSE EndOfChain(heap, heap[i].enclosing, steps - 1)

\* C34: whatever blocks, calls, binds and class declarations a program
\* runs, a frame keeps the enclosing reference it was made with, frames are
\* only added, and from every frame the enclosing references lead, within
\* as many steps as there are frames, to the global frame, the one frame
\* without enclosing: the frame graph has no cycle.
C34_FrameChainsEndAtGlobal ==
    /\ [](\A i \in 1 .. Len(envs) : EndOfChain(envs, i, Len(envs)) = globals)
    /\ [][/\ Len(envs') >= Len(envs)
          /\ \A i \in 1 .. Len(envs) : envs'[i].enclosing = envs[i].enclosing]_vars

\* frames of a block, of calls, of a bind and of a class with a superclass:
\* a chain of three links to the global frame
C34_Witness ==
    /\ phase = "done"
    /\ \E i \in 1 .. Len(envs) :
          /\ Len(ChainOf(envs, i)) = 4
          /\ "this" \in DOMAIN envs[ChainOf(envs, i)[2]].values
          /\ "super" \in DOMAIN envs[ChainOf(envs, i)[3]].values

\* C35: a call evaluates the callee, then the arguments from left to right,
\* and checks the callee and the arity only then: the arguments have
\* printed also when the call fails with "Can only call functions and
\* classes." or with an arity error; an error in the callee or in an
\* argument ends the call before the arguments after it are evaluated.
C35_CallEvaluationOrder ==
    (source.id = "call_order" /\ phase \in FinalPhases) =>
        /\ phase = "done"
        /\ CASE source.b = 1 ->
                  /\ output = << "getf2", "a1", "a2", "body", "end" >>
                  /\ errors = <<>>
             [] source.b = 2 ->
                  /\ output = << "notc", "a1", "a2", "end" >>
                  /\ errors = << "Can only call functions and classes." >>
             [] source.b = 3 ->
                  /\ output = << "getf1", "a1", "a2", "end" >>
                  /\ errors = << "Expected 1 arguments but got 2." >>
             [] source.b = 4 ->
                  /\ output = << "getf2", "bad", "end" >>
                  /\ errors = << "Operand must be a number." >>
             [] source.b = 5 ->
                  /\ output = << "bad", "end" >>
                  /\ errors = << "Operand must be a number." >>
             [] source.b = 6 ->
                  /\ output = << "getf2", "a1", "bad", "end" >>
                  /\ errors = << "Operand must be a number." >>

C35_Witness ==
    /\ source.id = "call_order" /\ source.b = 2
    /\ phase = "done"
    /\ output = << "notc", "a1", "a2", "end" >>
    /\ errors = << "Can only call functions and classes." >>

\* C36: a Set expression evaluates the target object before the value
\* expression; a target that is not an Instance gives "Only instances have
\* fields." without the value expression being evaluated; a raising value
\* expression writes no field; on success the result is the value written.
C36_SetEvaluationOrder ==
    (source.id = "set_order" /\ phase \in FinalPhases) =>
        /\ phase = "done"
        /\ CASE source.b = 1 ->
                  /\ output = << "geto", "val", Stringify(Isize(source.a)), "end" >>
                  /\ errors = <<>>
                  /\ insts[Global("o").fields] = [n \in {"x"} |-> Isize(source.a)]
             [] source.b = 2 ->
                  /\ output = << "get1", "end" >>
                  /\ errors = << "Only instances have fields." >>
                  /\ insts[Global("o").fields] = EmptyMap
             [] source.b = 3 ->
                  /\ output = << "geto", "bad", "end" >>
                  /\ errors = << "Operand must be a number." >>
                  /\ insts[Global("o").fields] = EmptyMap
             [] source.b = 4 ->
                  /\ output = << "bad", "end" >>
                  /\ errors = << "Operand must be a number." >>
                  /\ insts[Global("o").fields] = EmptyMap

C36_Witness ==
    /\ source.id = "set_order" /\ source.b = 2
    /\ phase = "done"
    /\ output = << "get1", "end" >>
    /\ errors = << "Only instances have fields." >>
    /\ insts[Global("o").fields] = EmptyMap

\* the operand codes of the Function f, the Class K, the Instance o and the
\* native clock
NonPrimitiveOperands == 110 .. 113

C38_IntegerDivision ==
    (source.id = "divide" /\ phase \in FinalPhases) =>
        /\ phase = "done"
        /\ output = << "next" >>
        /\ IF source.b = 0
           THEN Len(errors) = 1 /\ ~HasGlobal("r")
           ELSE /\ errors = <<>>
                /\ HasGlobal("r")
                /\ Global("r") = Isize(TruncDiv(source.a, source.b))

\* an Integer divided by a non-zero Integer is the truncated quotient and
\* the next statement runs; a zero divisor aborts the interpreter: nothing
\* is reported and the next statement does not run
C38_DivisionAsImplemented ==
    (source.id = "divide" /\ phase \in FinalPhases) =>
        IF source.b = 0
        THEN phase = "aborted" /\ output = <<>> /\ errors = <<>>
        ELSE /\ phase = "done"
             /\ output = << "next" >>
             /\ errors = <<>>
             /\ HasGlobal("r")
             /\ Global("r") = Isize(TruncDiv(source.a, source.b))

====
